---- MODULE Spec2Model ----
(***************************************************************************)
(* The client-side request and state orchestration of the Trackr web       *)
(* client: the token store and the axios interceptors (src/lib/api.ts),    *)
(* the auth context (src/contexts/AuthContext.tsx), the transactions query *)
(* cache of the Expenses page and the file selection of the Upload page.   *)
(***************************************************************************)
EXTENDS Integers, Sequences, FiniteSets, TLC

VARIABLES
    storage,    \* localStorage: [access, refresh, theme], Null when the key is absent
    user,       \* AuthProvider state `user`; isAuthenticated is !!user
    isLoading,  \* AuthProvider state `isLoading`
    mounted,    \* the AuthProvider's mount effect has run in this document
    nav,        \* a navigation started by assigning window.location.href
    reqs,       \* per operation, the request it awaits (its axios config)
    ev,         \* the handler that ran last, with what it was given and returned
    reg,        \* the request register awaits, and the store and user when it was called
    backend,    \* the backend's transaction list, as its version number
    typeFilter, \* Expenses page state `typeFilter`
    cache,      \* the query cache entries ['expenses', filter]
    mut,        \* the transaction mutation in progress
    acked,      \* the list version made by the last mutation known to succeed
    cev,        \* the cache handler that ran last
    file,       \* Upload page state `file`
    upload,     \* the file handed to uploadMutation.mutate, while it is pending
    showPreview,\* the Upload page shows the parsed transactions
    uev,        \* the Upload page handler that ran last
    previewTransactions, \* Upload page state `previewTransactions`
    bulk,       \* the list handed to bulkCreateMutation.mutate, while pending
    plog,       \* what the upload returned and what the user did to it since
    view,       \* what the page shows of the last response it was given
    isDarkMode, \* Settings page state `isDarkMode`: the document has the class 'dark'
    page,       \* the page that is mounted
    queries,    \* the query cache entries ['analytics', ..], ['budgets'], ['category-rules']
    stored,     \* per resource, the backend's list as its version number
    rmut,       \* the budget or rule mutation in progress
    qev,        \* the mutation handler of those pages that ran last
    isDialogOpen,  \* Budgets / Category Rules page state `isDialogOpen`
    editing,    \* page state `editingBudget` / `editingRule`: null or a listed row
    listEmpty,  \* the list the page was given has no rows (`budgets?.length === 0`)
    flog        \* how the dialog was opened last and what its form submitted last

authVars == <<storage, user, isLoading, mounted, nav, reqs, ev, reg>>

cacheVars == <<backend, typeFilter, cache, mut, acked, cev>>

uploadVars == <<file, upload, showPreview, uev, previewTransactions, bulk, plog>>

viewVars == <<view, isDarkMode>>

resourceVars == <<page, queries, stored, rmut, qev>>

formVars == <<isDialogOpen, editing, listEmpty, flog>>

\* The state of the pages, which the auth context and the client leave alone.
pageVars == <<cacheVars, uploadVars, viewVars, resourceVars, formVars>>

vars == <<authVars, cacheVars, uploadVars, viewVars, resourceVars, formVars>>

----------------------------------------------------------------------------
(* Values *)

Null == "null"

Undefined == "undefined"

\* Tokens the backend may issue.
Tokens == {"t1", "t2"}

\* Profiles the backend may return from /api/auth/me/.
Profiles == {"alice", "bob"}

\* The operations that await a request.  "data" is any request of a page
\* (a query or a mutation) sent through the shared client.
Ops == {"refreshUser", "login", "logout", "data"}

\* At most this many operations await a request at the same time.
MaxInFlight == 2

----------------------------------------------------------------------------
(* Token store, src/lib/api.ts *)

getAccessToken(st) == st.access

getRefreshToken(st) == st.refresh

\* `if (refresh)`: an absent refresh token leaves the stored one alone.
setTokens(st, access, refresh) ==
    [st EXCEPT !.access = access,
               !.refresh = IF refresh # Null /\ refresh # Undefined
                           THEN refresh ELSE st.refresh]

\* Mutant: localStorage.clear() in place of the two removeItem calls.
clearTokens_clear(st) == [k \in DOMAIN st |-> Null]

\* removeItem of the two token keys.
clearTokens(st) == [st EXCEPT !.access = Null, !.refresh = Null]

\* The token keys of the store.
tokens(st) == [access |-> st.access, refresh |-> st.refresh]

----------------------------------------------------------------------------
(* Backend responses *)

\* error.response.data of a failed request.  A field the payload does not
\* carry is Undefined; non_field_errors is an array when present.
ErrPayloads ==
    [detail : {Undefined, "", "detail text"},
     message : {Undefined, "message text"},
     non_field_errors : {[present |-> FALSE, items |-> <<>>],
                         [present |-> TRUE, items |-> <<>>],
                         [present |-> TRUE, items |-> <<"nfe text">>]}]

NoPayload ==
    [detail |-> Undefined, message |-> Undefined,
     non_field_errors |-> [present |-> FALSE, items |-> <<>>]]

\* The payloads the backend answers with in the behaviours explored: none
\* of the known fields, a detail, an empty detail, or a non-field error.
SomePayloads ==
    {NoPayload,
     [NoPayload EXCEPT !.detail = "detail text"],
     [NoPayload EXCEPT !.detail = ""],
     [NoPayload EXCEPT !.non_field_errors = [present |-> TRUE, items |-> <<"nfe text">>]]}

\* A rejected request: a response with an error status, or no response at
\* all (status 0: error.response is undefined).  Only login reads the
\* payload, so the other operations are answered with the empty one.
Errors(op) ==
    [status : {401, 500},
     data : IF op = "login" THEN SomePayloads ELSE {NoPayload}]
        \cup {[status |-> 0, data |-> NoPayload]}

OkLogin == [status : {200}, access : Tokens, refresh : Tokens \cup {Undefined}]

OkMe == [status : {200}, profile : Profiles]

OkRefresh == [status : {200}, access : Tokens]

OkEmpty == {[status |-> 200]}

\* What the backend may answer to op's request of the given url.
Responses(op, url) ==
    (CASE url = "login" -> OkLogin
       [] url = "me" -> OkMe
       [] OTHER -> OkEmpty) \cup Errors(op)

----------------------------------------------------------------------------
(* The shared axios client, src/lib/api.ts *)

\* A request as its operation holds it: phase ("idle": the operation is not
\* running), url, the config's _retry flag and Authorization header, the
\* refresh requests and replays made for it, and, in login, the tokens the
\* login response returned (login's locals `access` and `refresh`).
IdleReq ==
    [phase |-> "idle", url |-> "none", retry |-> FALSE, hdr |-> Null,
     nRefresh |-> 0, nReplay |-> 0, access |-> Null, refresh |-> Null]

\* register is not running.  before and userBefore are the token store and
\* the user when register was last called; an empty store before any call.
NoRegister ==
    [cfg |-> IdleReq,
     before |-> [access |-> Null, refresh |-> Null, theme |-> Null],
     userBefore |-> Null]

\* api.interceptors.request.use: attach the stored access token, if any.
requestInterceptor(st, cfg) ==
    IF getAccessToken(st) # Null
    THEN [cfg EXCEPT !.hdr = getAccessToken(st)]
    ELSE cfg

\* Mutant: the request is sent without passing the request interceptor.
NewRequest_bare(st, url) ==
    [IdleReq EXCEPT !.phase = "flight", !.url = url]

\* api.get / api.post: a new config through the request interceptor.
NewRequest(st, url) ==
    requestInterceptor(st,
        [IdleReq EXCEPT !.phase = "flight", !.url = url])

\* Mutant: the handler refreshes on any error status.
responseError_anyStatus(st, cfg, err) ==
    IF err.status # 0 /\ ~cfg.retry
    THEN IF getRefreshToken(st) # Null
         THEN [st |-> st,
               cfg |-> [cfg EXCEPT !.retry = TRUE, !.phase = "refreshing",
                                   !.nRefresh = @ + 1],
               redirect |-> FALSE, next |-> "refresh", err |-> err]
         ELSE [st |-> clearTokens(st),
               cfg |-> [cfg EXCEPT !.retry = TRUE],
               redirect |-> TRUE, next |-> "reject", err |-> err]
    ELSE [st |-> st, cfg |-> cfg, redirect |-> FALSE, next |-> "reject",
          err |-> err]

\* Mutant: the handler without the _retry guard and flag.
responseError_noRetryFlag(st, cfg, err) ==
    IF err.status = 401
    THEN IF getRefreshToken(st) # Null
         THEN [st |-> st,
               cfg |-> [cfg EXCEPT !.phase = "refreshing", !.nRefresh = @ + 1],
               redirect |-> FALSE, next |-> "refresh", err |-> err]
         ELSE [st |-> clearTokens(st), cfg |-> cfg,
               redirect |-> TRUE, next |-> "reject", err |-> err]
    ELSE [st |-> st, cfg |-> cfg, redirect |-> FALSE, next |-> "reject",
          err |-> err]

\* Mutant: the handler redirects without clearing the tokens when no refresh
\* token is stored.
responseError_keepsTokens(st, cfg, err) ==
    IF err.status = 401 /\ ~cfg.retry
    THEN IF getRefreshToken(st) # Null
         THEN [st |-> st,
               cfg |-> [cfg EXCEPT !.retry = TRUE, !.phase = "refreshing",
                                   !.nRefresh = @ + 1],
               redirect |-> FALSE, next |-> "refresh", err |-> err]
         ELSE [st |-> st,
               cfg |-> [cfg EXCEPT !.retry = TRUE],
               redirect |-> TRUE, next |-> "reject", err |-> err]
    ELSE [st |-> st, cfg |-> cfg, redirect |-> FALSE, next |-> "reject",
          err |-> err]

\* api.interceptors.response.use, the rejection handler, up to its await:
\* next = "refresh" when it has sent the token-refresh request, "reject"
\* when it returns Promise.reject(error).
responseError(st, cfg, err) ==
    IF err.status = 401 /\ ~cfg.retry
    THEN IF getRefreshToken(st) # Null
         THEN [st |-> st,
               cfg |-> [cfg EXCEPT !.retry = TRUE, !.phase = "refreshing",
                                   !.nRefresh = @ + 1],
               redirect |-> FALSE, next |-> "refresh", err |-> err]
         ELSE [st |-> clearTokens(st),
               cfg |-> [cfg EXCEPT !.retry = TRUE],
               redirect |-> TRUE, next |-> "reject", err |-> err]
    ELSE [st |-> st, cfg |-> cfg, redirect |-> FALSE, next |-> "reject",
          err |-> err]

\* The response interceptor on a response: fulfilled responses pass through.
responseInterceptor(st, cfg, resp) ==
    IF resp.status = 200
    THEN [st |-> st, cfg |-> cfg, redirect |-> FALSE, next |-> "resolve",
          err |-> resp]
    ELSE responseError(st, cfg, resp)

\* Mutant: the refreshed access token is put on the replay but not stored.
refreshSettled_notStored(st, cfg, rr) ==
    IF rr.status = 200
    THEN [st |-> st,
          cfg |-> [cfg EXCEPT !.hdr = rr.access, !.phase = "flight",
                              !.nReplay = @ + 1],
          redirect |-> FALSE, next |-> "replay", err |-> rr]
    ELSE [st |-> clearTokens(st), cfg |-> cfg, redirect |-> TRUE,
          next |-> "reject", err |-> rr]

\* The rejection handler after its await of the refresh request: on success
\* store the access token and replay the original request, otherwise clear
\* the tokens, redirect and reject with the refresh error.
refreshSettled(st, cfg, rr) ==
    IF rr.status = 200
    THEN LET st1 == setTokens(st, rr.access, Undefined)
         IN [st |-> st1,
             cfg |-> requestInterceptor(st1,
                        [cfg EXCEPT !.hdr = rr.access, !.phase = "flight",
                                    !.nReplay = @ + 1]),
             redirect |-> FALSE, next |-> "replay", err |-> rr]
    ELSE [st |-> clearTokens(st), cfg |-> cfg, redirect |-> TRUE,
          next |-> "reject", err |-> rr]

----------------------------------------------------------------------------
(* The record of the handler that ran last *)

\* op: the operation; step: "call", "refresh" (the refresh request was
\* sent), "replay" (the request was sent again), "next" (the operation went
\* on to its next request) or "settle" (the operation returned); via: what
\* the handler was run by; status: the status it was given; retried: the
\* request's _retry flag when it arrived; tok: an access token the backend
\* returned; out: what the awaited request gave the operation; success and
\* error: the value login returned; threw: the operation's promise rejected;
\* url: the request's url; profile: a profile the backend returned;
\* hadRefresh: a refresh token was stored when a first 401 arrived;
\* userKept: in login, the handler left `user` as it was; untouched: the
\* interceptor left the token store and the request as they were and did
\* not redirect.
NoEvent ==
    [op |-> "none", step |-> "load", via |-> "none", status |-> -1,
     retried |-> FALSE, tok |-> Null, out |-> "none", success |-> "none",
     error |-> "", threw |-> FALSE, url |-> "none", profile |-> Null,
     hadRefresh |-> FALSE, userKept |-> TRUE, untouched |-> TRUE]

CallEvent(op) == [NoEvent EXCEPT !.op = op, !.step = "call", !.via = "call"]

\* The record of a handler run by a response (via = "response") or by the
\* refresh request settling (via = "refresh").
HandlerEvent(op, via, cfg, r) ==
    [NoEvent EXCEPT
        !.op = op, !.via = via, !.status = r.err.status,
        !.retried = cfg.retry,
        !.tok = IF r.err.status = 200
                   /\ (via = "refresh" \/ cfg.url \in {"login", "register"})
                THEN r.err.access ELSE Null,
        !.step = CASE r.next = "refresh" -> "refresh"
                   [] r.next = "replay" -> "replay"
                   [] OTHER -> "settle",
        !.out = CASE r.next = "resolve" -> "resolved"
                  [] r.next = "reject" -> "rejected"
                  [] OTHER -> "none",
        !.url = cfg.url,
        !.profile = IF r.next = "resolve" /\ cfg.url = "me"
                    THEN r.err.profile ELSE Null,
        !.hadRefresh = /\ via = "response" /\ r.err.status = 401 /\ ~cfg.retry
                       /\ getRefreshToken(storage) # Null,
        !.untouched = (r.st = storage /\ ~r.redirect /\ r.cfg = cfg)]

\* The record of a handler of login, which notes whether it set `user`.
LoginEvent(e) == [e EXCEPT !.userKept = (user' = user)]

InFlight == {o \in Ops : reqs[o].phase # "idle"}

CanCall(op) ==
    /\ reqs[op].phase = "idle"
    /\ Cardinality(InFlight) < MaxInFlight

\* window.location.href = '/login' starts a navigation; the document goes on
\* running until PageLoad.
Redirect(r) == IF r.redirect THEN "/login" ELSE nav

\* The interceptor's result for a response to op's request, or for the
\* settling of the refresh request it awaits.
Intercept(op, via, resp) ==
    IF via = "refresh"
    THEN refreshSettled(storage, reqs[op], resp)
    ELSE responseInterceptor(storage, reqs[op], resp)

\* The responses that may arrive for op: answers to its request when it is
\* in flight, answers to the refresh request when the interceptor awaits it.
Arrivals(op) ==
    CASE reqs[op].phase = "flight" ->
            {<<"response", resp>> : resp \in Responses(op, reqs[op].url)}
      [] reqs[op].phase = "refreshing" ->
            {<<"refresh", rr>> : rr \in OkRefresh \cup Errors(op)}
      [] OTHER -> {}

\* The interceptor still awaits (the refresh request, or the replay): the
\* operation is not resumed.
Pending(op, via, r) ==
    /\ r.next \in {"refresh", "replay"}
    /\ storage' = r.st
    /\ reqs' = [reqs EXCEPT ![op] = r.cfg]
    /\ nav' = Redirect(r)
    /\ ev' = HandlerEvent(op, via, reqs[op], r)
    /\ UNCHANGED <<user, isLoading, mounted>>

----------------------------------------------------------------------------
(* The auth context, src/contexts/AuthContext.tsx *)

\* Mutant: the profile request is sent whether or not a token is stored.
refreshUser_noTokenCheck ==
    /\ UNCHANGED <<pageVars, reg>>
    /\ nav = "none" \/ mounted
    /\ CanCall("refreshUser")
    /\ mounted' = TRUE
    /\ reqs' = [reqs EXCEPT !["refreshUser"] = NewRequest(storage, "me")]
    /\ ev' = CallEvent("refreshUser")
    /\ UNCHANGED <<user, isLoading>>
    /\ UNCHANGED <<storage, nav>>

\* refreshUser, called by the mount effect and by the Settings page.
refreshUser ==
    /\ UNCHANGED <<pageVars, reg>>
    /\ nav = "none" \/ mounted
    /\ CanCall("refreshUser")
    /\ mounted' = TRUE
    /\ IF getAccessToken(storage) = Null
       THEN /\ user' = Null
            /\ isLoading' = FALSE
            /\ ev' = [CallEvent("refreshUser") EXCEPT !.step = "settle"]
            /\ UNCHANGED reqs
       ELSE /\ reqs' = [reqs EXCEPT !["refreshUser"] = NewRequest(storage, "me")]
            /\ ev' = CallEvent("refreshUser")
            /\ UNCHANGED <<user, isLoading>>
    /\ UNCHANGED <<storage, nav>>

\* Mutant: the catch block clears the tokens only for a 401.
refreshUserSettled_only401(via, r) ==
    /\ r.next \in {"resolve", "reject"}
    /\ IF r.next = "resolve"
       THEN /\ user' = r.err.profile
            /\ storage' = r.st
       ELSE /\ user' = Null
            /\ storage' = IF r.err.status = 401 THEN clearTokens(r.st) ELSE r.st
    /\ isLoading' = FALSE
    /\ reqs' = [reqs EXCEPT !["refreshUser"] = IdleReq]
    /\ nav' = Redirect(r)
    /\ ev' = HandlerEvent("refreshUser", via, reqs["refreshUser"], r)
    /\ UNCHANGED mounted

\* Mutant: setIsLoading(false) follows setUser in the try block instead of
\* standing in a finally block, so a rejected request skips it.
refreshUserSettled_noFinally(via, r) ==
    /\ r.next \in {"resolve", "reject"}
    /\ IF r.next = "resolve"
       THEN /\ user' = r.err.profile
            /\ storage' = r.st
            /\ isLoading' = FALSE
       ELSE /\ user' = Null
            /\ storage' = clearTokens(r.st)
            /\ UNCHANGED isLoading
    /\ reqs' = [reqs EXCEPT !["refreshUser"] = IdleReq]
    /\ nav' = Redirect(r)
    /\ ev' = HandlerEvent("refreshUser", via, reqs["refreshUser"], r)
    /\ UNCHANGED mounted

\* refreshUser resumed after `await authAPI.getMe()`.
refreshUserSettled(via, r) ==
    /\ r.next \in {"resolve", "reject"}
    /\ IF r.next = "resolve"
       THEN /\ user' = r.err.profile
            /\ storage' = r.st
       ELSE /\ user' = Null
            /\ storage' = clearTokens(r.st)
    /\ isLoading' = FALSE
    /\ reqs' = [reqs EXCEPT !["refreshUser"] = IdleReq]
    /\ nav' = Redirect(r)
    /\ ev' = HandlerEvent("refreshUser", via, reqs["refreshUser"], r)
    /\ UNCHANGED mounted

refreshUserResponse ==
    /\ UNCHANGED <<pageVars, reg>>
    /\ \E a \in Arrivals("refreshUser") :
        LET r == Intercept("refreshUser", a[1], a[2])
        IN Pending("refreshUser", a[1], r) \/ refreshUserSettled(a[1], r)

\* JavaScript truthiness of an optional string.
Truthy(x) == x # Undefined /\ x # ""

\* error.response?.data?.non_field_errors?.[0]
FirstNonFieldError(data) ==
    IF data.non_field_errors.present /\ Len(data.non_field_errors.items) > 0
    THEN data.non_field_errors.items[1]
    ELSE Undefined

\* Mutant: message is read before detail.
LoginErrorMessage_messageFirst(err) ==
    IF Truthy(err.data.message) THEN err.data.message
    ELSE IF Truthy(err.data.detail) THEN err.data.detail
    ELSE IF Truthy(FirstNonFieldError(err.data)) THEN FirstNonFieldError(err.data)
    ELSE "Invalid username or password"

\* The message login returns from its catch block.
LoginErrorMessage(err) ==
    IF Truthy(err.data.detail) THEN err.data.detail
    ELSE IF Truthy(err.data.message) THEN err.data.message
    ELSE IF Truthy(FirstNonFieldError(err.data)) THEN FirstNonFieldError(err.data)
    ELSE "Invalid username or password"

\* login: `await authAPI.login({ username, password })`.
login ==
    /\ UNCHANGED <<pageVars, reg>>
    /\ mounted
    /\ CanCall("login")
    /\ reqs' = [reqs EXCEPT !["login"] = NewRequest(storage, "login")]
    /\ ev' = CallEvent("login")
    /\ UNCHANGED <<storage, user, isLoading, mounted, nav>>

\* Mutant: the profile request is sent before the tokens are stored.
loginTokens_sendsFirst(via, r) ==
    /\ r.next = "resolve"
    /\ reqs["login"].url = "login"
    /\ storage' = setTokens(r.st, r.err.access, r.err.refresh)
    /\ reqs' = [reqs EXCEPT !["login"] =
                    [NewRequest(r.st, "me") EXCEPT
                        !.access = r.err.access, !.refresh = r.err.refresh]]
    /\ nav' = Redirect(r)
    /\ UNCHANGED <<user, isLoading, mounted>>
    /\ ev' = LoginEvent([HandlerEvent("login", via, reqs["login"], r) EXCEPT
                            !.step = "next"])

\* login resumed after the token request: store the tokens, then
\* `await authAPI.getMe()`.
loginTokens(via, r) ==
    /\ r.next = "resolve"
    /\ reqs["login"].url = "login"
    /\ LET st1 == setTokens(r.st, r.err.access, r.err.refresh)
       IN /\ storage' = st1
          /\ reqs' = [reqs EXCEPT !["login"] =
                          [NewRequest(st1, "me") EXCEPT
                              !.access = r.err.access, !.refresh = r.err.refresh]]
    /\ nav' = Redirect(r)
    /\ UNCHANGED <<user, isLoading, mounted>>
    /\ ev' = LoginEvent([HandlerEvent("login", via, reqs["login"], r) EXCEPT
                            !.step = "next"])

\* login resumed after the profile request: setUser and return success.
loginProfile(via, r) ==
    /\ r.next = "resolve"
    /\ reqs["login"].url = "me"
    /\ user' = r.err.profile
    /\ storage' = r.st
    /\ reqs' = [reqs EXCEPT !["login"] = IdleReq]
    /\ nav' = Redirect(r)
    /\ ev' = LoginEvent([HandlerEvent("login", via, reqs["login"], r) EXCEPT
                            !.success = "true"])
    /\ UNCHANGED <<isLoading, mounted>>

\* Mutant: the catch block also resets the user.
loginCatch_clearsUser(via, r) ==
    /\ r.next = "reject"
    /\ storage' = r.st
    /\ user' = Null
    /\ reqs' = [reqs EXCEPT !["login"] = IdleReq]
    /\ nav' = Redirect(r)
    /\ ev' = LoginEvent([HandlerEvent("login", via, reqs["login"], r) EXCEPT
                            !.success = "false", !.error = LoginErrorMessage(r.err)])
    /\ UNCHANGED <<isLoading, mounted>>

\* login's catch block, for a rejection of either request.
loginCatch(via, r) ==
    /\ r.next = "reject"
    /\ storage' = r.st
    /\ reqs' = [reqs EXCEPT !["login"] = IdleReq]
    /\ nav' = Redirect(r)
    /\ UNCHANGED <<user, isLoading, mounted>>
    /\ ev' = LoginEvent([HandlerEvent("login", via, reqs["login"], r) EXCEPT
                            !.success = "false", !.error = LoginErrorMessage(r.err)])

loginResponse ==
    /\ UNCHANGED <<pageVars, reg>>
    /\ \E a \in Arrivals("login") :
        LET r == Intercept("login", a[1], a[2])
        IN \/ Pending("login", a[1], r)
           \/ loginTokens(a[1], r)
           \/ loginProfile(a[1], r)
           \/ loginCatch(a[1], r)

\* logout: `await authAPI.logout()`.
logout ==
    /\ UNCHANGED <<pageVars, reg>>
    /\ mounted
    /\ CanCall("logout")
    /\ reqs' = [reqs EXCEPT !["logout"] = NewRequest(storage, "logout")]
    /\ ev' = CallEvent("logout")
    /\ UNCHANGED <<storage, user, isLoading, mounted, nav>>

\* Mutant: the tokens and the user are cleared after the await, not in a
\* finally block, so a rejected request skips the clearing.
logoutFinally_onlyOnSuccess(via, r) ==
    /\ r.next \in {"resolve", "reject"}
    /\ storage' = IF r.next = "resolve" THEN clearTokens(r.st) ELSE r.st
    /\ user' = IF r.next = "resolve" THEN Null ELSE user
    /\ reqs' = [reqs EXCEPT !["logout"] = IdleReq]
    /\ nav' = Redirect(r)
    /\ ev' = HandlerEvent("logout", via, reqs["logout"], r)
    /\ UNCHANGED <<isLoading, mounted>>

\* logout's finally block, after the request resolved or its rejection was
\* caught and ignored.
logoutFinally(via, r) ==
    /\ r.next \in {"resolve", "reject"}
    /\ storage' = clearTokens(r.st)
    /\ user' = Null
    /\ reqs' = [reqs EXCEPT !["logout"] = IdleReq]
    /\ nav' = Redirect(r)
    /\ ev' = HandlerEvent("logout", via, reqs["logout"], r)
    /\ UNCHANGED <<isLoading, mounted>>

logoutResponse ==
    /\ UNCHANGED <<pageVars, reg>>
    /\ \E a \in Arrivals("logout") :
        LET r == Intercept("logout", a[1], a[2])
        IN Pending("logout", a[1], r) \/ logoutFinally(a[1], r)

----------------------------------------------------------------------------
(* Requests of the pages *)

\* A query or a mutation of a page calls the shared client.
dataRequest ==
    /\ UNCHANGED <<pageVars, reg>>
    /\ mounted
    /\ CanCall("data")
    /\ reqs' = [reqs EXCEPT !["data"] = NewRequest(storage, "data")]
    /\ ev' = CallEvent("data")
    /\ UNCHANGED <<storage, user, isLoading, mounted, nav>>

\* The request settles; the auth context is not involved.
dataSettled(via, r) ==
    /\ r.next \in {"resolve", "reject"}
    /\ storage' = r.st
    /\ reqs' = [reqs EXCEPT !["data"] = IdleReq]
    /\ nav' = Redirect(r)
    /\ ev' = HandlerEvent("data", via, reqs["data"], r)
    /\ UNCHANGED <<user, isLoading, mounted>>

dataResponse ==
    /\ UNCHANGED <<pageVars, reg>>
    /\ \E a \in Arrivals("data") :
        LET r == Intercept("data", a[1], a[2])
        IN Pending("data", a[1], r) \/ dataSettled(a[1], r)

\* The navigation started by the interceptor completes: the document is
\* replaced, its state and its pending requests are gone, localStorage stays.
PageLoad ==
    /\ UNCHANGED <<cacheVars, uploadVars, resourceVars, formVars, view>>
    /\ isDarkMode' = FALSE
    /\ nav # "none"
    /\ nav' = "none"
    /\ mounted' = FALSE
    /\ user' = Null
    /\ isLoading' = TRUE
    /\ reqs' = [o \in Ops |-> IdleReq]
    /\ reg' = NoRegister
    /\ ev' = NoEvent
    /\ UNCHANGED storage

----------------------------------------------------------------------------
(* The query cache, keyed by resource name *)

\* The pages behind ProtectedRoute that read a list.
Pages == {"Expenses", "Dashboard", "Budgets", "CategoryRules"}

\* The key prefixes other than 'expenses'.  The ['analytics', ..] entries
\* are kept as one: they are observed, fetched and invalidated together.
Resources == {"analytics", "budgets", "category-rules"}

\* The resources a page of their own writes.
Writable == {"budgets", "category-rules"}

\* The key the useQuery of a page observes.
observedKey(p) ==
    CASE p = "Dashboard" -> "analytics"
      [] p = "Budgets" -> "budgets"
      [] p = "CategoryRules" -> "category-rules"
      [] OTHER -> "none"

\* A cache entry: data (the list version it holds), invalidated, and fetch
\* ("sent" while its queryFn is pending).
NoEntry == [data |-> -1, invalidated |-> FALSE, fetch |-> "idle"]

NoResourceMutation == [resource |-> "none", kind |-> "none", phase |-> "idle"]

NoResourceEvent == [kind |-> "none", resource |-> "none"]

\* useQuery({ queryKey: [r] }) mounting: the entry is fetched, unless a fetch
\* is already on its way.
observeKey(qs, r) ==
    IF r \in Resources THEN [qs EXCEPT ![r].fetch = "sent"] ELSE qs

\* Mutant: the response of the mutation is written into the cached list.
invalidateKey_setQueryData(qs, r, active, body) ==
    [qs EXCEPT ![r].data = body]

\* queryClient.invalidateQueries({ queryKey: [r] }): the entry is marked
\* invalidated, and fetched again when a mounted useQuery observes it.  The
\* response of the mutation, body, is not used.
invalidateKey(qs, r, active, body) ==
    [qs EXCEPT ![r].invalidated = TRUE,
               ![r].fetch = IF r = active THEN "sent" ELSE @]

----------------------------------------------------------------------------
(* The transactions query cache of the Expenses page, src/pages/Expenses.tsx *)

\* The values of the type filter, one cache entry ['expenses', f] each.
Filters == {"all", "income", "expense"}

\* The backend applies at most this many mutations.
MaxWrites == 1

NoData == -1

\* A cache entry: data (the list version it holds, NoData before the first
\* fetch), invalidated, fetch ("idle", "sent": the request is on its way,
\* "served": the backend has read the list), served (the version it read)
\* and since (the acknowledged version when the fetch started).
NoQuery ==
    [data |-> NoData, invalidated |-> FALSE, fetch |-> "idle",
     served |-> NoData, since |-> 0]

Kinds == {"create", "update", "delete"}

NoMutation == [kind |-> "none", phase |-> "idle"]

\* The handler that ran last, when it was mutationSuccess or fetchSuccess.
NoCacheEvent == [kind |-> "none", filter |-> "none", since |-> 0]

\* queryFn: expensesAPI.getAll(params) is sent for the entry.
startFetch(q, a) ==
    [q EXCEPT !.fetch = "sent", !.served = NoData, !.since = a]

\* useQuery({ queryKey: ['expenses', typeFilter] }) observing entry f: stale
\* data is refetched when the observer mounts, unless a fetch is already on
\* its way.
observe(c, f, a) ==
    IF c[f].fetch = "idle" THEN [c EXCEPT ![f] = startFetch(c[f], a)] ELSE c

\* Mutant: only the entry on screen is invalidated (the exact key).
invalidateQueries_exactKey(c, active, a) ==
    [f \in Filters |->
        IF f = active
        THEN startFetch([c[f] EXCEPT !.invalidated = TRUE], a)
        ELSE c[f]]

\* queryClient.invalidateQueries({ queryKey: ['expenses'] }): every entry
\* whose key starts with 'expenses' is marked invalidated, and the entry on
\* screen is fetched again, in place of a fetch already on its way.
invalidateQueries(c, active, a) ==
    [f \in Filters |->
        IF f = active
        THEN startFetch([c[f] EXCEPT !.invalidated = TRUE], a)
        ELSE [c[f] EXCEPT !.invalidated = TRUE]]

\* The user picks another type filter.
setTypeFilter(f) ==
    /\ f # typeFilter
    /\ typeFilter' = f
    /\ cache' = observe(cache, f, acked)
    /\ cev' = NoCacheEvent
    /\ UNCHANGED <<backend, mut, acked>>
    /\ UNCHANGED <<authVars, formVars, uploadVars, viewVars, resourceVars>>

\* The backend answers GET /api/expenses/ with its list as it is now.
backendServes(f) ==
    /\ cache[f].fetch = "sent"
    /\ cache' = [cache EXCEPT ![f].fetch = "served", ![f].served = backend]
    /\ cev' = NoCacheEvent
    /\ UNCHANGED <<backend, typeFilter, mut, acked>>
    /\ UNCHANGED <<authVars, formVars, uploadVars, viewVars, resourceVars>>

\* The response arrives: the entry holds the list and is fresh again.
fetchSuccess(f) ==
    /\ cache[f].fetch = "served"
    /\ cache' = [cache EXCEPT ![f].data = cache[f].served,
                              ![f].invalidated = FALSE,
                              ![f].fetch = "idle",
                              ![f].served = NoData, ![f].since = 0]
    /\ cev' = [kind |-> "fetchSuccess", filter |-> f, since |-> cache[f].since]
    /\ UNCHANGED <<backend, typeFilter, mut, acked>>
    /\ UNCHANGED <<authVars, formVars, uploadVars, viewVars, resourceVars>>

\* The request fails (an error status, or no response): the entry keeps
\* its data and its invalidated flag.
fetchError(f) ==
    /\ cache[f].fetch \in {"sent", "served"}
    /\ cache' = [cache EXCEPT ![f].fetch = "idle",
                              ![f].served = NoData, ![f].since = 0]
    /\ cev' = NoCacheEvent
    /\ UNCHANGED <<backend, typeFilter, mut, acked>>
    /\ UNCHANGED <<authVars, formVars, uploadVars, viewVars, resourceVars>>

\* handleCreate / handleUpdate / handleDelete: the mutation is sent.
mutate(k) ==
    /\ page = "Expenses"
    /\ mut.phase = "idle"
    /\ mut' = [kind |-> k, phase |-> "sent"]
    /\ cev' = NoCacheEvent
    /\ UNCHANGED <<backend, typeFilter, cache, acked>>
    /\ UNCHANGED <<authVars, formVars, uploadVars, viewVars, resourceVars>>

\* The backend applies the mutation: its list changes.
backendApplies ==
    /\ mut.phase = "sent"
    /\ backend < MaxWrites
    /\ backend' = backend + 1
    /\ mut' = [mut EXCEPT !.phase = "applied"]
    /\ cev' = NoCacheEvent
    /\ UNCHANGED <<typeFilter, cache, acked>>
    /\ UNCHANGED <<authVars, formVars, uploadVars, viewVars, resourceVars>>

\* onSuccess of createMutation / updateMutation / deleteMutation.
mutationSuccess ==
    /\ mut.phase = "applied"
    /\ mut' = NoMutation
    /\ acked' = backend
    /\ cache' = invalidateQueries(cache, typeFilter, backend)
    /\ queries' = invalidateKey(queries, "analytics", observedKey(page), backend)
    /\ cev' = [kind |-> "mutationSuccess", filter |-> typeFilter, since |-> backend]
    /\ UNCHANGED <<backend, typeFilter>>
    /\ UNCHANGED <<page, stored, rmut, qev>>
    /\ UNCHANGED <<authVars, formVars, uploadVars, viewVars>>

\* onError: the request was rejected, or its response was lost; a toast is
\* shown and the cache is left alone.
mutationError ==
    /\ mut.phase \in {"sent", "applied"}
    /\ mut' = NoMutation
    /\ cev' = NoCacheEvent
    /\ UNCHANGED <<backend, typeFilter, cache, acked>>
    /\ UNCHANGED <<authVars, formVars, uploadVars, viewVars, resourceVars>>

\* The Expenses page has mounted: the filter is 'all' and its query is
\* being fetched.
InitCache ==
    /\ backend = 0
    /\ typeFilter = "all"
    /\ cache = observe([f \in Filters |-> NoQuery], "all", 0)
    /\ mut = NoMutation
    /\ acked = 0
    /\ cev = NoCacheEvent

----------------------------------------------------------------------------
(* The Dashboard, Budgets and Category Rules pages, src/pages/Dashboard.tsx
   and the pages of src/unnamed/part_001 and src/unnamed/part_000 *)

\* The dialog has not been opened; no form has been submitted.
NoFormLog == [openedFor |-> "none", request |-> "none"]

\* The list a GET of the resource returns: the analytics are computed from
\* the transactions.
listVersion(r) == IF r = "analytics" THEN backend ELSE stored[r]

\* No request of the mounted page is pending.
Settled ==
    /\ mut.phase = "idle"
    /\ rmut.phase = "idle"
    /\ \A f \in Filters : cache[f].fetch = "idle"
    /\ \A r \in Resources : queries[r].fetch = "idle"

\* The user opens another page once this one has settled: its useQuery
\* mounts (the Expenses page with its filter 'all').
openPage(p) ==
    /\ p # page
    /\ Settled
    /\ page' = p
    /\ IF p = "Expenses"
       THEN /\ typeFilter' = "all"
            /\ cache' = observe(cache, "all", acked)
            /\ UNCHANGED queries
       ELSE /\ queries' = observeKey(queries, observedKey(p))
            /\ UNCHANGED <<typeFilter, cache>>
    /\ cev' = NoCacheEvent
    /\ qev' = NoResourceEvent
    /\ isDialogOpen' = FALSE
    /\ editing' = Null
    /\ listEmpty' = FALSE
    /\ flog' = NoFormLog
    /\ UNCHANGED <<backend, mut, acked, stored, rmut>>
    /\ UNCHANGED <<authVars, uploadVars, viewVars>>

\* The response of the queryFn arrives: the entry holds the list and is
\* fresh again.
resourceFetchSuccess(r) ==
    /\ queries[r].fetch = "sent"
    /\ queries' = [queries EXCEPT ![r] =
                      [data |-> listVersion(r), invalidated |-> FALSE,
                       fetch |-> "idle"]]
    /\ qev' = NoResourceEvent
    /\ UNCHANGED <<page, stored, rmut>>
    /\ UNCHANGED <<authVars, formVars, cacheVars, uploadVars, viewVars>>

\* The request of the queryFn fails: the entry keeps its data and its
\* invalidated flag.
resourceFetchError(r) ==
    /\ queries[r].fetch = "sent"
    /\ queries' = [queries EXCEPT ![r].fetch = "idle"]
    /\ qev' = NoResourceEvent
    /\ UNCHANGED <<page, stored, rmut>>
    /\ UNCHANGED <<authVars, formVars, cacheVars, uploadVars, viewVars>>

\* createMutation.mutate / updateMutation.mutate / deleteMutation.mutate of
\* the Budgets page and of the Category Rules page.
resourceMutate(r, k) ==
    /\ r = observedKey(page)
    /\ rmut.phase = "idle"
    /\ rmut' = [resource |-> r, kind |-> k, phase |-> "sent"]
    /\ qev' = NoResourceEvent
    /\ UNCHANGED <<page, queries, stored>>
    /\ UNCHANGED <<authVars, formVars, cacheVars, uploadVars, viewVars>>

\* The backend applies the mutation: its list changes.
resourceApplies ==
    /\ rmut.phase = "sent"
    /\ stored[rmut.resource] < MaxWrites
    /\ stored' = [stored EXCEPT ![rmut.resource] = @ + 1]
    /\ rmut' = [rmut EXCEPT !.phase = "applied"]
    /\ qev' = NoResourceEvent
    /\ UNCHANGED <<page, queries>>
    /\ UNCHANGED <<authVars, formVars, cacheVars, uploadVars, viewVars>>

\* onSuccess of createMutation / updateMutation / deleteMutation: the key of
\* the resource is invalidated, a toast is shown and, after a create or an
\* update, resetForm closes the dialog.
resourceMutationSuccess ==
    /\ rmut.phase = "applied"
    /\ queries' = invalidateKey(queries, rmut.resource, observedKey(page),
                                stored[rmut.resource])
    /\ rmut' = NoResourceMutation
    /\ qev' = [kind |-> "mutationSuccess", resource |-> rmut.resource]
    /\ IF rmut.kind \in {"create", "update"}
       THEN /\ isDialogOpen' = FALSE
            /\ editing' = Null
       ELSE UNCHANGED <<isDialogOpen, editing>>
    /\ UNCHANGED <<page, stored, listEmpty, flog>>
    /\ UNCHANGED <<authVars, cacheVars, uploadVars, viewVars>>

\* onError of createMutation / updateMutation / deleteMutation: a toast is
\* shown and nothing else.
resourceMutationError ==
    /\ rmut.phase \in {"sent", "applied"}
    /\ rmut' = NoResourceMutation
    /\ qev' = [kind |-> "mutationError", resource |-> rmut.resource]
    /\ UNCHANGED <<page, queries, stored>>
    /\ UNCHANGED <<authVars, formVars, cacheVars, uploadVars, viewVars>>

\* The pages with a create / edit dialog.
FormPages == {"Budgets", "CategoryRules"}

\* The row an Edit button belongs to.
SomeRow == "row"

\* The page has rendered the list its query returned: empty is
\* `budgets?.length === 0` / `filteredRules?.length === 0`.
renderList(empty) ==
    /\ page \in FormPages
    /\ queries[observedKey(page)].data # -1
    /\ empty # listEmpty
    /\ listEmpty' = empty
    /\ UNCHANGED <<isDialogOpen, editing, flog>>
    /\ UNCHANGED <<authVars, cacheVars, uploadVars, viewVars, resourceVars>>

\* The Create button of the header, the trigger of the dialog: resetForm
\* runs, then the trigger opens the dialog.
createClick ==
    /\ page \in FormPages
    /\ ~isDialogOpen
    /\ editing' = Null
    /\ isDialogOpen' = TRUE
    /\ flog' = [flog EXCEPT !.openedFor = "create"]
    /\ UNCHANGED listEmpty
    /\ UNCHANGED <<authVars, cacheVars, uploadVars, viewVars, resourceVars>>

\* The Create button of the empty state: setIsDialogOpen(true).
emptyStateCreateClick ==
    /\ page \in FormPages
    /\ listEmpty
    /\ ~isDialogOpen
    /\ isDialogOpen' = TRUE
    /\ flog' = [flog EXCEPT !.openedFor = "create"]
    /\ UNCHANGED <<editing, listEmpty>>
    /\ UNCHANGED <<authVars, cacheVars, uploadVars, viewVars, resourceVars>>

\* handleEdit: the Edit button of a listed row.
handleEdit ==
    /\ page \in FormPages
    /\ queries[observedKey(page)].data # -1
    /\ ~listEmpty
    /\ ~isDialogOpen
    /\ editing' = SomeRow
    /\ isDialogOpen' = TRUE
    /\ flog' = [flog EXCEPT !.openedFor = "edit"]
    /\ UNCHANGED listEmpty
    /\ UNCHANGED <<authVars, cacheVars, uploadVars, viewVars, resourceVars>>

\* Dialog onOpenChange={setIsDialogOpen}: the dialog is dismissed (Escape,
\* a click outside, its close button).
onOpenChange(open) ==
    /\ page \in FormPages
    /\ isDialogOpen
    /\ isDialogOpen' = open
    /\ UNCHANGED <<editing, listEmpty, flog>>
    /\ UNCHANGED <<authVars, cacheVars, uploadVars, viewVars, resourceVars>>

\* resetForm, from the Cancel button of the form.
resetForm ==
    /\ page \in FormPages
    /\ isDialogOpen
    /\ editing' = Null
    /\ isDialogOpen' = FALSE
    /\ UNCHANGED <<listEmpty, flog>>
    /\ UNCHANGED <<authVars, cacheVars, uploadVars, viewVars, resourceVars>>

\* handleSubmit: `if (editingBudget)` updateMutation.mutate, else
\* createMutation.mutate.  The submit button is disabled while either is
\* pending.
handleSubmit ==
    /\ page \in FormPages
    /\ isDialogOpen
    /\ rmut.phase = "idle"
    /\ LET kind == IF editing # Null THEN "update" ELSE "create"
       IN /\ rmut' = [resource |-> observedKey(page), kind |-> kind,
                      phase |-> "sent"]
          /\ flog' = [flog EXCEPT !.request = kind]
    /\ qev' = NoResourceEvent
    /\ UNCHANGED <<isDialogOpen, editing, listEmpty>>
    /\ UNCHANGED <<page, queries, stored>>
    /\ UNCHANGED <<authVars, cacheVars, uploadVars, viewVars>>

\* The Delete button of a listed row: deleteMutation.mutate(id).
handleDelete ==
    /\ page \in FormPages
    /\ queries[observedKey(page)].data # -1
    /\ ~listEmpty
    /\ ~isDialogOpen
    /\ rmut.phase = "idle"
    /\ rmut' = [resource |-> observedKey(page), kind |-> "delete",
                phase |-> "sent"]
    /\ qev' = NoResourceEvent
    /\ UNCHANGED formVars
    /\ UNCHANGED <<page, queries, stored>>
    /\ UNCHANGED <<authVars, cacheVars, uploadVars, viewVars>>

\* The Expenses page is mounted; no other list has been fetched yet.
InitResources ==
    /\ page = "Expenses"
    /\ queries = [r \in Resources |-> NoEntry]
    /\ stored = [r \in Writable |-> 0]
    /\ rmut = NoResourceMutation
    /\ qev = NoResourceEvent
    /\ isDialogOpen = FALSE
    /\ editing = Null
    /\ listEmpty = FALSE
    /\ flog = NoFormLog

----------------------------------------------------------------------------
(* The file selection of the Upload page, src/pages/Upload.tsx *)

\* File names, as sequences of characters.
FileNames ==
    {<<"a", ".", "c", "s", "v">>,
     <<"A", ".", "C", "S", "V">>,
     <<"b", ".", "x", "l", "s">>,
     <<"b", ".", "X", "l", "s", "x">>,
     <<"c", "s", "v">>,
     <<"a", ".", "c", "s", "v", ".", "t", "x", "t">>,
     <<"d", ".", "t", "x", "t">>}

\* File.type as the browser reports it ("" when it knows none).
FileTypes ==
    {"text/csv",
     "application/vnd.ms-excel",
     "application/vnd.openxmlformats-officedocument.spreadsheetml.sheet",
     "",
     "text/plain"}

Files == [present : {TRUE}, type : FileTypes, name : FileNames]

\* No file: `file` = null, or files[0] undefined.
NoFile == [present |-> FALSE, type |-> "", name |-> <<>>]

NoUploadEvent == [kind |-> "none", offered |-> NoFile, kept |-> TRUE, toast |-> ""]

\* String.prototype.toLowerCase on the characters of the names.
lowerChar(ch) ==
    CASE ch = "A" -> "a"
      [] ch = "C" -> "c"
      [] ch = "S" -> "s"
      [] ch = "V" -> "v"
      [] ch = "X" -> "x"
      [] OTHER -> ch

toLowerCase(str) == [i \in 1..Len(str) |-> lowerChar(str[i])]

\* String.prototype.endsWith
endsWith(str, suffix) ==
    /\ Len(str) >= Len(suffix)
    /\ SubSeq(str, Len(str) - Len(suffix) + 1, Len(str)) = suffix

validTypes ==
    {"text/csv",
     "application/vnd.ms-excel",
     "application/vnd.openxmlformats-officedocument.spreadsheetml.sheet"}

validExtensions ==
    {<<".", "c", "s", "v">>, <<".", "x", "l", "s">>, <<".", "x", "l", "s", "x">>}

\* Mutant: the name is compared without lower-casing it.
isValidFile_caseSensitive(f) ==
    \/ f.type \in validTypes
    \/ \E ext \in validExtensions : endsWith(f.name, ext)

isValidFile(f) ==
    \/ f.type \in validTypes
    \/ \E ext \in validExtensions : endsWith(toLowerCase(f.name), ext)

\* The decimal digits, for the strings the page parses.
Digits == <<"0", "1", "2", "3", "4", "5", "6", "7", "8", "9">>

isDigit(ch) == \E d \in 1..10 : Digits[d] = ch

digitValue(ch) == (CHOOSE d \in 1..10 : Digits[d] = ch) - 1

\* The number of leading decimal digits of a string.
digitPrefix(str) ==
    IF \E k \in 1..Len(str) : ~isDigit(str[k])
    THEN (CHOOSE k \in 1..Len(str) :
              /\ ~isDigit(str[k])
              /\ \A j \in 1..(k - 1) : isDigit(str[j])) - 1
    ELSE Len(str)

RECURSIVE digitsValue(_)
digitsValue(str) ==
    IF str = <<>> THEN 0
    ELSE 10 * digitsValue(SubSeq(str, 1, Len(str) - 1)) + digitValue(str[Len(str)])

\* A JavaScript number, held in hundredths; NaN is a value of its own.
NaN == [nan |-> TRUE, hundredths |-> 0]

Number(h) == [nan |-> FALSE, hundredths |-> h]

\* parseFloat on an unsigned decimal string: the longest prefix of the form
\* digits [. digits], NaN when that prefix holds no digit.  The amounts have
\* at most two decimals, so hundredths hold the result.
parseFloat(str) ==
    LET n == digitPrefix(str)
        rest == SubSeq(str, n + 1, Len(str))
        frac == IF Len(rest) >= 1 /\ rest[1] = "."
                THEN SubSeq(rest, 2, Len(rest)) ELSE <<>>
        m == digitPrefix(frac)
    IN  IF n = 0 /\ m = 0 THEN NaN
        ELSE Number(100 * digitsValue(SubSeq(str, 1, n))
                    + (IF m >= 1 THEN 10 * digitValue(frac[1]) ELSE 0)
                    + (IF m >= 2 THEN digitValue(frac[2]) ELSE 0))

\* parseInt on an unsigned decimal string; -1 stands for NaN.
parseInt(str) ==
    IF digitPrefix(str) = 0 THEN -1
    ELSE digitsValue(SubSeq(str, 1, digitPrefix(str)))

\* String(n) of a natural number.
RECURSIVE String(_)
String(n) ==
    IF n < 10 THEN <<Digits[n + 1]>>
    ELSE String(n \div 10) \o <<Digits[(n % 10) + 1]>>

\* `category: null`
NoCategory == 0

\* The categories query of the Upload page.
categories == {[id |-> 1, name |-> "Food"], [id |-> 12, name |-> "Rent"]}

\* Expense.amount is `number | string`.
AmountNumber(h) == [isString |-> FALSE, text |-> <<>>, number |-> Number(h)]

AmountString(str) == [isString |-> TRUE, text |-> str, number |-> NaN]

\* Rows the backend's parser returns.
groceries ==
    [amount |-> AmountNumber(700), category |-> NoCategory,
     category_name |-> Undefined, description |-> "groceries",
     date |-> "2024-01-05"]

lunch ==
    [amount |-> AmountString(<<"1", "2", ".", "5", "0">>), category |-> 1,
     category_name |-> "Food", description |-> "lunch", date |-> "2024-01-05"]

rent ==
    [amount |-> AmountString(<<"9", "0", "0">>), category |-> 12,
     category_name |-> "Rent", description |-> "rent", date |-> "2024-02-01"]

\* response.data.transactions of the upload: no row, one row, the same row
\* twice, three different rows.
PreviewLists ==
    {<<>>, <<lunch>>, <<groceries, groceries>>, <<groceries, lunch, rent>>}

\* The upload's response body: with or without `transactions`.
UploadResponses ==
    {[hasTransactions |-> FALSE, transactions |-> <<>>]}
    \cup {[hasTransactions |-> TRUE, transactions |-> l] : l \in PreviewLists}

NoBulk == [phase |-> "idle", transactions |-> <<>>]

\* returned: the list the upload returned; origin: for each row on screen,
\* its place in that list; changed: the pairs <<place, category>> the user
\* chose; kind: the preview handler that ran last; bulkKept: it left the
\* bulk-create mutation alone.
NoLog ==
    [returned |-> <<>>, origin |-> <<>>, changed |-> {}, kind |-> "none",
     bulkKept |-> TRUE]

\* handleDrop, on the upload area (shown while the preview is not): a
\* valid dropped file is selected; anything else, no file included, raises
\* the toast.
handleDrop(d) ==
    /\ ~showPreview
    /\ IF d.present /\ isValidFile(d)
       THEN /\ file' = d
            /\ uev' = [kind |-> "drop", offered |-> d, kept |-> (file' = file),
                       toast |-> ""]
       ELSE /\ file' = file
            /\ uev' = [kind |-> "drop", offered |-> d, kept |-> (file' = file),
                       toast |-> "Invalid file type"]
    /\ UNCHANGED <<upload, showPreview, previewTransactions, bulk, plog>>
    /\ UNCHANGED <<authVars, formVars, cacheVars, viewVars, resourceVars>>

\* handleFileSelect, on the file input (shown while no file is selected):
\* as handleDrop, but silent when no file was chosen.
handleFileSelect(d) ==
    /\ ~showPreview
    /\ ~file.present
    /\ IF d.present /\ isValidFile(d)
       THEN /\ file' = d
            /\ uev' = [kind |-> "select", offered |-> d, kept |-> (file' = file),
                       toast |-> ""]
       ELSE /\ file' = file
            /\ uev' = [kind |-> "select", offered |-> d, kept |-> (file' = file),
                       toast |-> IF d.present THEN "Invalid file type" ELSE ""]
    /\ UNCHANGED <<upload, showPreview, previewTransactions, bulk, plog>>
    /\ UNCHANGED <<authVars, formVars, cacheVars, viewVars, resourceVars>>

\* handleUpload: the selected file is handed to the upload mutation.  The
\* button is shown with a selected file and disabled while the mutation is
\* pending.
handleUpload ==
    /\ ~showPreview
    /\ file.present
    /\ ~upload.present
    /\ upload' = IF file.present THEN file ELSE upload
    /\ uev' = [kind |-> "upload", offered |-> file, kept |-> TRUE, toast |-> ""]
    /\ UNCHANGED <<file, showPreview, previewTransactions, bulk, plog>>
    /\ UNCHANGED <<authVars, formVars, cacheVars, viewVars, resourceVars>>

\* uploadMutation.onSuccess: a response with transactions opens the preview.
uploadSuccess(data) ==
    /\ upload.present
    /\ upload' = NoFile
    /\ IF data.hasTransactions
       THEN /\ previewTransactions' = data.transactions
            /\ showPreview' = TRUE
            /\ plog' = [returned |-> data.transactions,
                        origin |-> [k \in 1..Len(data.transactions) |-> k],
                        changed |-> {}, kind |-> "uploadSuccess",
                        bulkKept |-> TRUE]
       ELSE UNCHANGED <<previewTransactions, showPreview, plog>>
    /\ uev' = [kind |-> "uploadSuccess", offered |-> upload, kept |-> TRUE,
               toast |-> IF data.hasTransactions
                         THEN "File parsed successfully" ELSE ""]
    /\ UNCHANGED <<file, bulk>>
    /\ UNCHANGED <<authVars, formVars, cacheVars, viewVars, resourceVars>>

\* uploadMutation.onError
uploadError ==
    /\ upload.present
    /\ upload' = NoFile
    /\ uev' = [kind |-> "uploadError", offered |-> upload, kept |-> TRUE,
               toast |-> "Upload failed"]
    /\ UNCHANGED <<file, showPreview, previewTransactions, bulk, plog>>
    /\ UNCHANGED <<authVars, formVars, cacheVars, viewVars, resourceVars>>

\* resetUpload: the remove and cancel buttons of the upload area (offered
\* with a selected file while no upload is pending) and the cancel button
\* of the preview.
resetUpload ==
    /\ \/ showPreview
       \/ file.present /\ ~upload.present
    /\ file' = NoFile
    /\ previewTransactions' = <<>>
    /\ showPreview' = FALSE
    /\ uev' = [kind |-> "reset", offered |-> NoFile, kept |-> (file' = file),
               toast |-> ""]
    /\ plog' = [NoLog EXCEPT !.kind = "reset"]
    /\ UNCHANGED <<upload, bulk>>
    /\ UNCHANGED <<authVars, formVars, cacheVars, viewVars, resourceVars>>

\* handleCategoryChange: the row at `index` takes the chosen category and
\* its name; the other rows are kept.
handleCategoryChange(index, categoryId) ==
    /\ UNCHANGED bulk
    /\ showPreview
    /\ index \in 1..Len(previewTransactions)
    /\ previewTransactions' =
          [i \in 1..Len(previewTransactions) |->
              IF i = index
              THEN [previewTransactions[i] EXCEPT
                      !.category = parseInt(categoryId),
                      !.category_name =
                          IF \E c \in categories : c.id = parseInt(categoryId)
                          THEN (CHOOSE c \in categories :
                                    c.id = parseInt(categoryId)).name
                          ELSE Undefined]
              ELSE previewTransactions[i]]
    /\ plog' = [plog EXCEPT
                  !.changed = {pr \in @ : pr[1] # plog.origin[index]}
                      \cup {<<plog.origin[index],
                              (CHOOSE c \in categories :
                                   String(c.id) = categoryId).id>>},
                  !.kind = "categoryChange",
                  !.bulkKept = (bulk' = bulk)]
    /\ UNCHANGED <<file, upload, showPreview, uev>>
    /\ UNCHANGED <<authVars, formVars, cacheVars, viewVars, resourceVars>>

\* Mutant: every row equal to the row at `index` is removed.
removeTransaction_byValue(index) ==
    /\ UNCHANGED bulk
    /\ showPreview
    /\ index \in 1..Len(previewTransactions)
    /\ previewTransactions' =
          SelectSeq(previewTransactions,
                    LAMBDA t : t # previewTransactions[index])
    /\ plog' = [plog EXCEPT
                  !.origin = SubSeq(@, 1, index - 1) \o SubSeq(@, index + 1, Len(@)),
                  !.changed = {pr \in @ : pr[1] # plog.origin[index]},
                  !.kind = "remove",
                  !.bulkKept = (bulk' = bulk)]
    /\ UNCHANGED <<file, upload, showPreview, uev>>
    /\ UNCHANGED <<authVars, formVars, cacheVars, viewVars, resourceVars>>

\* removeTransaction: prev.filter((_, i) => i !== index)
removeTransaction(index) ==
    /\ UNCHANGED bulk
    /\ showPreview
    /\ index \in 1..Len(previewTransactions)
    /\ previewTransactions' =
          [k \in 1..(Len(previewTransactions) - 1) |->
              IF k < index THEN previewTransactions[k]
              ELSE previewTransactions[k + 1]]
    /\ plog' = [plog EXCEPT
                  !.origin = SubSeq(@, 1, index - 1) \o SubSeq(@, index + 1, Len(@)),
                  !.changed = {pr \in @ : pr[1] # plog.origin[index]},
                  !.kind = "remove",
                  !.bulkKept = (bulk' = bulk)]
    /\ UNCHANGED <<file, upload, showPreview, uev>>
    /\ UNCHANGED <<authVars, formVars, cacheVars, viewVars, resourceVars>>

\* The ExpenseInput that handleSaveAll makes of a preview row.
ExpenseInput(t) ==
    [amount |-> IF t.amount.isString THEN parseFloat(t.amount.text)
                ELSE t.amount.number,
     category |-> t.category,
     description |-> t.description,
     date |-> t.date]

\* Mutant: the Save All button is enabled over an empty preview.
handleSaveAll_emptyEnabled ==
    /\ showPreview
    /\ bulk.phase = "idle"
    /\ bulk' = [phase |-> "sent",
                transactions |-> [k \in 1..Len(previewTransactions) |->
                                     ExpenseInput(previewTransactions[k])]]
    /\ plog' = [plog EXCEPT !.kind = "saveAll", !.bulkKept = (bulk' = bulk)]
    /\ UNCHANGED <<file, upload, showPreview, uev, previewTransactions>>
    /\ UNCHANGED <<authVars, formVars, cacheVars, viewVars, resourceVars>>

\* handleSaveAll: the Save All button, disabled while the bulk create is
\* pending and while the preview is empty.
handleSaveAll ==
    /\ showPreview
    /\ bulk.phase = "idle"
    /\ Len(previewTransactions) # 0
    /\ bulk' = [phase |-> "sent",
                transactions |-> [k \in 1..Len(previewTransactions) |->
                                     ExpenseInput(previewTransactions[k])]]
    /\ plog' = [plog EXCEPT !.kind = "saveAll", !.bulkKept = (bulk' = bulk)]
    /\ UNCHANGED <<file, upload, showPreview, uev, previewTransactions>>
    /\ UNCHANGED <<authVars, formVars, cacheVars, viewVars, resourceVars>>

\* The backend stores the transactions of POST /api/expenses/bulk_create/.
bulkApplies ==
    /\ bulk.phase = "sent"
    /\ backend < MaxWrites
    /\ backend' = backend + 1
    /\ bulk' = [bulk EXCEPT !.phase = "applied"]
    /\ plog' = [plog EXCEPT !.kind = "bulkApplies", !.bulkKept = (bulk' = bulk)]
    /\ UNCHANGED <<file, upload, showPreview, uev, previewTransactions>>
    /\ UNCHANGED <<typeFilter, cache, mut, acked, cev>>
    /\ UNCHANGED <<authVars, formVars, viewVars, resourceVars>>

\* bulkCreateMutation.onSuccess: the 'expenses' entries are invalidated (none
\* is on screen), the toast is shown, resetUpload runs and the Expenses page
\* is opened, with its filter 'all'.
bulkCreateSuccess ==
    /\ bulk.phase = "applied"
    /\ bulk' = NoBulk
    /\ acked' = backend
    /\ typeFilter' = "all"
    /\ cache' = observe(invalidateQueries(cache, "none", backend), "all", backend)
    /\ cev' = NoCacheEvent
    /\ file' = NoFile
    /\ previewTransactions' = <<>>
    /\ showPreview' = FALSE
    /\ uev' = [kind |-> "bulkCreateSuccess", offered |-> NoFile,
               kept |-> (file' = file), toast |-> "Transactions saved!"]
    /\ plog' = [NoLog EXCEPT !.kind = "bulkCreateSuccess",
                             !.bulkKept = (bulk' = bulk)]
    /\ page' = "Expenses"
    /\ queries' = invalidateKey(queries, "analytics", "none", backend)
    /\ UNCHANGED <<upload, backend, mut>>
    /\ UNCHANGED <<stored, rmut, qev>>
    /\ UNCHANGED <<authVars, formVars, viewVars>>

\* bulkCreateMutation.onError
bulkCreateError ==
    /\ bulk.phase \in {"sent", "applied"}
    /\ bulk' = NoBulk
    /\ uev' = [kind |-> "bulkCreateError", offered |-> NoFile, kept |-> TRUE,
               toast |-> "Save failed"]
    /\ plog' = [plog EXCEPT !.kind = "bulkCreateError",
                            !.bulkKept = (bulk' = bulk)]
    /\ UNCHANGED <<file, upload, showPreview, previewTransactions>>
    /\ UNCHANGED <<authVars, formVars, cacheVars, viewVars, resourceVars>>

InitUpload ==
    /\ file = NoFile
    /\ upload = NoFile
    /\ showPreview = FALSE
    /\ uev = NoUploadEvent
    /\ previewTransactions = <<>>
    /\ bulk = NoBulk
    /\ plog = NoLog

----------------------------------------------------------------------------
(* The figures of the Budgets and Analytics pages.  Money is held in       *)
(* hundredths, a percentage in hundredths of a percent.                    *)

\* An optional number of a response.
Absent == [present |-> FALSE, value |-> 0]

Present(v) == [present |-> TRUE, value |-> v]

\* `x || d` for an optional number: undefined and 0 give way to d.
OrElse(x, d) == IF x.present /\ x.value # 0 THEN x.value ELSE d

\* The budgets of GET /api/budgets/.
BudgetResponses ==
    [amount : {10000, 20000, 30000},
     spent : {Absent, Present(0), Present(5000), Present(25000)},
     remaining : {Absent, Present(0), Present(15000), Present(-5000)},
     is_over_budget : BOOLEAN]

\* The summaries of GET /api/analytics/summary/.
SummaryResponses ==
    [total_income : {0, 100000, 300000}, total_expenses : {0, 50000, 400000}]

Min(a, b) == IF a <= b THEN a ELSE b

\* getProgressPercentage: Math.min((spent / budget.amount) * 100, 100)
getProgressPercentage(budget) ==
    Min((OrElse(budget.spent, 0) * 10000) \div budget.amount, 10000)

\* What a budget card shows.
BudgetCard(budget) ==
    [spent |-> OrElse(budget.spent, 0),
     amount |-> budget.amount,
     percentage |-> getProgressPercentage(budget),
     remaining |-> OrElse(budget.remaining, budget.amount - OrElse(budget.spent, 0)),
     isOverBudget |-> budget.is_over_budget]

\* Math.round of the quotient a / b, b > 0: the nearest integer, halves up.
RoundedQuotient(a, b) == (2 * a + b) \div (2 * b)

\* The Savings Rate card, in whole percent.
SavingsRate(summary) ==
    IF summary.total_income # 0
    THEN RoundedQuotient((summary.total_income - summary.total_expenses) * 100,
                         summary.total_income)
    ELSE 0

NoView == [page |-> "none", given |-> [none |-> TRUE], shown |-> [none |-> TRUE]]

\* The Budgets page renders the card of a budget.
showBudget(budget) ==
    /\ view' = [page |-> "Budgets", given |-> budget, shown |-> BudgetCard(budget)]
    /\ UNCHANGED <<authVars, formVars, cacheVars, uploadVars, resourceVars, isDarkMode>>

\* The Analytics page renders the Savings Rate card.
showSavingsRate(summary) ==
    /\ view' = [page |-> "Analytics", given |-> summary,
                shown |-> [savingsRate |-> SavingsRate(summary)]]
    /\ UNCHANGED <<authVars, formVars, cacheVars, uploadVars, resourceVars, isDarkMode>>

----------------------------------------------------------------------------
(* The messages shown for a failed request *)

\* A rejected request with any of the known payloads.
FailedRequests ==
    [status : {400, 401, 500}, data : ErrPayloads]
        \cup {[status |-> 0, data |-> NoPayload]}

\* The login page is given what login returned from its catch block.
loginFailed(err) ==
    /\ view' = [page |-> "Login", given |-> err,
                shown |-> [success |-> FALSE, error |-> LoginErrorMessage(err)]]
    /\ UNCHANGED <<authVars, formVars, cacheVars, uploadVars, resourceVars, isDarkMode>>

\* A field of a validation error payload: absent, a string or an array.
NoField == [kind |-> "absent", text |-> Undefined, items |-> <<>>]

StringField(str) == [kind |-> "string", text |-> str, items |-> <<>>]

ArrayField(items) == [kind |-> "array", text |-> Undefined, items |-> items]

\* error.response.data of a failed registration; hasData is FALSE when
\* there is no response.
RegisterPayloads ==
    [hasData : {TRUE},
     username : {NoField, StringField(""), StringField("username text"),
                 ArrayField(<<>>), ArrayField(<<"username first", "username second">>)},
     email : {NoField, ArrayField(<<"email first">>)},
     password : {NoField, StringField("password text")},
     password2 : {NoField, ArrayField(<<"password2 first">>)},
     detail : {Undefined, "detail text"},
     message : {Undefined, "message text"}]
    \cup {[hasData |-> FALSE, username |-> NoField, email |-> NoField,
           password |-> NoField, password2 |-> NoField, detail |-> Undefined,
           message |-> Undefined]}

\* `if (errorData.field)`: any array, and any string but the empty one.
FieldTruthy(field) ==
    field.kind = "array" \/ (field.kind = "string" /\ field.text # "")

\* Array.isArray(field) ? field[0] : field
FieldMessage(field) ==
    IF field.kind = "array"
    THEN (IF Len(field.items) > 0 THEN field.items[1] ELSE Undefined)
    ELSE field.text

\* The message register returns from its catch block.
RegisterErrorMessage(errorData) ==
    IF ~errorData.hasData THEN "Registration failed"
    ELSE IF FieldTruthy(errorData.username) THEN FieldMessage(errorData.username)
    ELSE IF FieldTruthy(errorData.email) THEN FieldMessage(errorData.email)
    ELSE IF FieldTruthy(errorData.password) THEN FieldMessage(errorData.password)
    ELSE IF FieldTruthy(errorData.password2) THEN FieldMessage(errorData.password2)
    ELSE IF Truthy(errorData.detail) THEN errorData.detail
    ELSE IF Truthy(errorData.message) THEN errorData.message
    ELSE "Registration failed"

\* The register page is given what register returned from its catch block.
registerFailed(errorData) ==
    /\ view' = [page |-> "Register", given |-> errorData,
                shown |-> [success |-> FALSE,
                           error |-> RegisterErrorMessage(errorData)]]
    /\ UNCHANGED <<authVars, formVars, cacheVars, uploadVars, resourceVars, isDarkMode>>

\* The mutations with an onError handler, by page.
TransactionMutations ==
    {"Error adding transaction", "Error updating transaction",
     "Error deleting transaction"}

BudgetMutations ==
    {"Failed to create budget", "Failed to update budget", "Failed to delete budget"}

RuleMutations ==
    {"Failed to create rule", "Failed to update rule", "Failed to delete rule"}

FailureTitles ==
    TransactionMutations \cup BudgetMutations \cup RuleMutations
    \cup {"Upload failed", "Save failed", "Error updating profile"}

\* The toast of an onError handler: the Expenses, Upload and Settings pages
\* read `message` of the payload, the Budgets and Category Rules pages read
\* nothing.
FailureToast(title, err) ==
    [title |-> title,
     description |->
        IF title \in BudgetMutations \cup RuleMutations THEN Undefined
        ELSE IF Truthy(err.data.message) THEN err.data.message
        ELSE IF title = "Upload failed"
             THEN "Failed to process the file. Please try again."
        ELSE IF title = "Save failed"
             THEN "Failed to save transactions. Please try again."
        ELSE "Please try again"]

\* A mutation is rejected and its onError handler shows a toast.
mutationFailed(title, err) ==
    /\ view' = [page |-> "Toast", given |-> err, shown |-> FailureToast(title, err)]
    /\ UNCHANGED <<authVars, formVars, cacheVars, uploadVars, resourceVars, isDarkMode>>

\* The data queries of the Expenses page and the Dashboard, by query key.
DataQueries ==
    {<<"expenses", "all">>, <<"categories">>, <<"analytics", "summary">>,
     <<"analytics", "monthly">>, <<"expenses", "recent">>}

\* What a page shows of a query that failed: useQuery is given no error
\* callback and the pages read only `data` and `isLoading`, so no toast is
\* shown, the loading state ends and the list is drawn as empty.
FailedQueryView(queryKey, err) ==
    [title |-> Undefined, description |-> Undefined, isLoading |-> FALSE,
     data |-> Undefined]

\* A data query is rejected.
queryFailed(queryKey, err) ==
    /\ view' = [page |-> "Query", given |-> err,
                shown |-> FailedQueryView(queryKey, err)]
    /\ UNCHANGED <<authVars, formVars, cacheVars, uploadVars, resourceVars, isDarkMode>>

InitView == view = NoView /\ isDarkMode = FALSE

----------------------------------------------------------------------------

\* A document just loaded: the token store holds what an earlier session
\* left (nothing, an access token, or both tokens).
----------------------------------------------------------------------------
(* The progress of an upload, expensesAPI.upload in src/lib/api.ts *)

\* The progress events axios may deliver: total is absent when the length
\* of the request body is not computable.
ProgressEvents ==
    {e \in [loaded : {0, 1, 2, 3, 5, 8, 199, 200},
            total : {Absent, Present(0), Present(1), Present(3), Present(8),
                     Present(200)}] :
        e.total.present => (e.loaded <= e.total.value \/ e.loaded = 5)}

\* No call of onProgress.
NoProgress == [reported |-> FALSE, progress |-> 0]

\* Mutant: Math.floor in place of Math.round.
progressReport_floor(progressEvent) ==
    IF progressEvent.total.present /\ progressEvent.total.value # 0
    THEN [reported |-> TRUE,
          progress |-> (progressEvent.loaded * 100) \div progressEvent.total.value]
    ELSE NoProgress

\* onUploadProgress: `if (onProgress && progressEvent.total)`, then
\* Math.round((progressEvent.loaded * 100) / progressEvent.total) is passed
\* to onProgress.
progressReport(progressEvent) ==
    IF progressEvent.total.present /\ progressEvent.total.value # 0
    THEN [reported |-> TRUE,
          progress |-> RoundedQuotient(progressEvent.loaded * 100,
                                       progressEvent.total.value)]
    ELSE NoProgress

\* A progress event of the pending upload request: the Upload page is given
\* the value through setUploadProgress.
onUploadProgress(progressEvent) ==
    /\ upload.present
    /\ view' = [page |-> "Upload", given |-> progressEvent,
                shown |-> progressReport(progressEvent)]
    /\ UNCHANGED <<authVars, formVars, cacheVars, uploadVars, resourceVars, isDarkMode>>

----------------------------------------------------------------------------
(* The theme switch of the Settings page, src/pages/Settings.tsx *)

\* localStorage.setItem(key, value)
setItem(st, key, value) == [st EXCEPT ![key] = value]

\* handleToggleTheme: the state and the document's class are flipped and the
\* new mode is stored under 'theme'.  The page is behind ProtectedRoute.
handleToggleTheme ==
    /\ user # Null
    /\ nav = "none"
    /\ LET newMode == ~isDarkMode
       IN /\ isDarkMode' = newMode
          /\ storage' = setItem(storage, "theme",
                                IF newMode THEN "dark" ELSE "light")
    /\ UNCHANGED <<user, isLoading, mounted, nav, reqs, ev, reg>>
    /\ UNCHANGED <<cacheVars, uploadVars, resourceVars, formVars, view>>

----------------------------------------------------------------------------
(* register, src/contexts/AuthContext.tsx *)

\* A fulfilled registration: the backend may return tokens or none.
OkRegister ==
    [status : {200}, access : Tokens \cup {Undefined, ""},
     refresh : {"t1", Undefined}]

\* What the backend may answer to register's request of the given url.
RegisterResponses(url) ==
    (IF url = "register" THEN OkRegister ELSE OkMe) \cup Errors("register")

\* The responses that may arrive for register.
RegisterArrivals ==
    CASE reg.cfg.phase = "flight" ->
            {<<"response", resp>> : resp \in RegisterResponses(reg.cfg.url)}
      [] reg.cfg.phase = "refreshing" ->
            {<<"refresh", rr>> : rr \in OkRefresh \cup Errors("register")}
      [] OTHER -> {}

\* The interceptor's result for a response to register's request.
RegisterIntercept(via, resp) ==
    IF via = "refresh"
    THEN refreshSettled(storage, reg.cfg, resp)
    ELSE responseInterceptor(storage, reg.cfg, resp)

\* error.response?.data as the catch block of register reads it: the
\* failures explored carry none of the fields.
registerErrorData(err) ==
    [hasData |-> err.status # 0, username |-> NoField, email |-> NoField,
     password |-> NoField, password2 |-> NoField, detail |-> Undefined,
     message |-> Undefined]

\* register: `await authAPI.register(data)`.
register ==
    /\ UNCHANGED pageVars
    /\ mounted
    /\ nav = "none"
    /\ reg.cfg.phase = "idle"
    /\ reg' = [cfg |-> NewRequest(storage, "register"),
               before |-> storage, userBefore |-> user]
    /\ ev' = CallEvent("register")
    /\ UNCHANGED <<storage, user, isLoading, mounted, nav, reqs>>

\* The interceptor still awaits (the refresh request, or the replay).
registerPending(via, r) ==
    /\ r.next \in {"refresh", "replay"}
    /\ storage' = r.st
    /\ reg' = [reg EXCEPT !.cfg = r.cfg]
    /\ nav' = Redirect(r)
    /\ ev' = HandlerEvent("register", via, reg.cfg, r)
    /\ UNCHANGED <<user, isLoading, mounted, reqs>>

\* Mutant: the tokens are stored and the profile fetched whatever the
\* response carries.
registerNoTokens_storesAnyway(via, r) ==
    /\ r.next = "resolve"
    /\ reg.cfg.url = "register"
    /\ ~Truthy(r.err.access)
    /\ storage' = setTokens(r.st, r.err.access, r.err.refresh)
    /\ reg' = [reg EXCEPT !.cfg = IdleReq]
    /\ nav' = Redirect(r)
    /\ ev' = [HandlerEvent("register", via, reg.cfg, r) EXCEPT !.success = "true"]
    /\ UNCHANGED <<user, isLoading, mounted, reqs>>

\* register resumed after its request, `if (response.data.access)`: store
\* the tokens, then `await authAPI.getMe()`.
registerTokens(via, r) ==
    /\ r.next = "resolve"
    /\ reg.cfg.url = "register"
    /\ Truthy(r.err.access)
    /\ LET st1 == setTokens(r.st, r.err.access, r.err.refresh)
       IN /\ storage' = st1
          /\ reg' = [reg EXCEPT !.cfg = NewRequest(st1, "me")]
    /\ nav' = Redirect(r)
    /\ ev' = [HandlerEvent("register", via, reg.cfg, r) EXCEPT !.step = "next"]
    /\ UNCHANGED <<user, isLoading, mounted, reqs>>

\* register resumed after its request when the response carries no access
\* token: it returns success.
registerNoTokens(via, r) ==
    /\ r.next = "resolve"
    /\ reg.cfg.url = "register"
    /\ ~Truthy(r.err.access)
    /\ storage' = r.st
    /\ reg' = [reg EXCEPT !.cfg = IdleReq]
    /\ nav' = Redirect(r)
    /\ ev' = [HandlerEvent("register", via, reg.cfg, r) EXCEPT !.success = "true"]
    /\ UNCHANGED <<user, isLoading, mounted, reqs>>

\* register resumed after the profile request: setUser and return success.
registerProfile(via, r) ==
    /\ r.next = "resolve"
    /\ reg.cfg.url = "me"
    /\ user' = r.err.profile
    /\ storage' = r.st
    /\ reg' = [reg EXCEPT !.cfg = IdleReq]
    /\ nav' = Redirect(r)
    /\ ev' = [HandlerEvent("register", via, reg.cfg, r) EXCEPT !.success = "true"]
    /\ UNCHANGED <<isLoading, mounted, reqs>>

\* register's catch block, for a rejection of either request.
registerCatch(via, r) ==
    /\ r.next = "reject"
    /\ storage' = r.st
    /\ reg' = [reg EXCEPT !.cfg = IdleReq]
    /\ nav' = Redirect(r)
    /\ ev' = [HandlerEvent("register", via, reg.cfg, r) EXCEPT
                 !.success = "false",
                 !.error = RegisterErrorMessage(registerErrorData(r.err))]
    /\ UNCHANGED <<user, isLoading, mounted, reqs>>

registerResponse ==
    /\ UNCHANGED pageVars
    /\ \E a \in RegisterArrivals :
        LET r == RegisterIntercept(a[1], a[2])
        IN \/ registerPending(a[1], r)
           \/ registerTokens(a[1], r)
           \/ registerNoTokens(a[1], r)
           \/ registerProfile(a[1], r)
           \/ registerCatch(a[1], r)

InitAuth ==
    /\ storage \in {st \in [access : Tokens \cup {Null}, refresh : Tokens \cup {Null},
                               theme : {Null}] :
                        st.refresh # Null => st.access # Null}
    /\ user = Null
    /\ isLoading = TRUE
    /\ mounted = FALSE
    /\ nav = "none"
    /\ reqs = [o \in Ops |-> IdleReq]
    /\ reg = NoRegister
    /\ ev = NoEvent

Init == InitAuth /\ InitCache /\ InitUpload /\ InitView /\ InitResources

\* A page behind ProtectedRoute is on screen: the session is established.
InitSignedIn ==
    /\ storage = [access |-> "t1", refresh |-> "t1", theme |-> Null]
    /\ user = "alice"
    /\ isLoading = FALSE
    /\ mounted = TRUE
    /\ nav = "none"
    /\ reqs = [o \in Ops |-> IdleReq]
    /\ reg = NoRegister
    /\ ev = NoEvent

InitPage == InitSignedIn /\ InitCache /\ InitUpload /\ InitView /\ InitResources

Next ==
    \/ refreshUser
    \/ refreshUserResponse
    \/ login
    \/ loginResponse
    \/ logout
    \/ logoutResponse
    \/ dataRequest
    \/ dataResponse
    \/ PageLoad

Spec == Init /\ [][Next]_vars

\* The same operations called one at a time: an operation starts only when
\* no other awaits a request.
refreshUserAlone == InFlight = {} /\ refreshUser

loginAlone == InFlight = {} /\ login

logoutAlone == InFlight = {} /\ logout

dataRequestAlone == InFlight = {} /\ dataRequest

NextSeq ==
    \/ refreshUserAlone
    \/ refreshUserResponse
    \/ loginAlone
    \/ loginResponse
    \/ logoutAlone
    \/ logoutResponse
    \/ dataRequestAlone
    \/ dataResponse
    \/ PageLoad

SpecSeq == Init /\ [][NextSeq]_vars

\* The Expenses page with its backend.
NextCache ==
    \/ \E f \in Filters : setTypeFilter(f)
    \/ \E f \in Filters : backendServes(f)
    \/ \E f \in Filters : fetchSuccess(f)
    \/ \E f \in Filters : fetchError(f)
    \/ \E k \in Kinds : mutate(k)
    \/ backendApplies
    \/ mutationSuccess
    \/ mutationError

SpecCache == InitPage /\ [][NextCache]_vars

\* Every request is answered and every answer, or its failure, arrives.
SpecCacheFair ==
    /\ SpecCache
    /\ \A f \in Filters : WF_vars(backendServes(f))
    /\ \A f \in Filters : WF_vars(fetchSuccess(f) \/ fetchError(f))
    /\ WF_vars(backendApplies)
    /\ WF_vars(mutationSuccess \/ mutationError)

\* The Settings page: the theme switch, and the operations of the session
\* one at a time.
NextSettings ==
    \/ handleToggleTheme
    \/ NextSeq

SpecSettings == InitPage /\ [][NextSettings]_vars

registerAlone == InFlight = {} /\ register

\* refreshUser while register is not running.
refreshUserApart == reg.cfg.phase = "idle" /\ refreshUser

\* The Register page, with the mount effect and the navigation of the
\* interceptor; one operation at a time.
NextRegister ==
    \/ refreshUserApart
    \/ refreshUserResponse
    \/ registerAlone
    \/ registerResponse
    \/ PageLoad

SpecRegister == Init /\ [][NextRegister]_vars

\* No operation of the session awaits a request.
Quiet == InFlight = {} /\ reg.cfg.phase = "idle"

\* useEffect(() => { refreshUser(); }, [refreshUser]): the provider's mount
\* effect, run once the provider is rendered and before any of its
\* consumers can call it.
mountEffect == ~mounted /\ refreshUser

\* The calls the pages make of the mounted provider, one at a time.
refreshUserLater == mounted /\ Quiet /\ refreshUser

loginLater == Quiet /\ login

registerLater == Quiet /\ register

logoutLater == Quiet /\ logout

\* One provider after another: the mount effect, then login, register,
\* logout and refreshUser as the pages call them.
NextProvider ==
    \/ mountEffect
    \/ refreshUserLater
    \/ refreshUserResponse
    \/ loginLater
    \/ loginResponse
    \/ registerLater
    \/ registerResponse
    \/ logoutLater
    \/ logoutResponse
    \/ PageLoad

SpecProvider == Init /\ [][NextProvider]_vars

\* React runs the effect of a mounted provider, and the profile request is
\* taken to settle: each response the interceptor awaits for it arrives.
SpecProviderFair ==
    /\ SpecProvider
    /\ WF_vars(mountEffect)
    /\ WF_vars(refreshUserResponse)

\* The pages that read and write the lists, one mounted at a time.
NextResources ==
    \/ \E p \in Pages : openPage(p)
    \/ \E f \in Filters : backendServes(f)
    \/ \E f \in Filters : fetchSuccess(f)
    \/ \E f \in Filters : fetchError(f)
    \/ \E k \in Kinds : mutate(k)
    \/ backendApplies
    \/ mutationSuccess
    \/ mutationError
    \/ \E r \in Resources : resourceFetchSuccess(r)
    \/ \E r \in Resources : resourceFetchError(r)
    \/ \E r \in Writable, k \in Kinds : resourceMutate(r, k)
    \/ resourceApplies
    \/ resourceMutationSuccess
    \/ resourceMutationError

SpecResources == InitPage /\ [][NextResources]_vars

\* The Budgets and Category Rules pages with their dialog, opened from the
\* Expenses page once its list has loaded.
NextForms ==
    \/ \E f \in Filters : backendServes(f)
    \/ \E f \in Filters : fetchSuccess(f)
    \/ \E p \in FormPages : openPage(p)
    \/ \E r \in Writable : resourceFetchSuccess(r)
    \/ \E e \in BOOLEAN : renderList(e)
    \/ createClick
    \/ emptyStateCreateClick
    \/ handleEdit
    \/ onOpenChange(FALSE)
    \/ resetForm
    \/ handleSubmit
    \/ handleDelete
    \/ resourceApplies
    \/ resourceMutationSuccess
    \/ resourceMutationError

SpecForms == InitPage /\ [][NextForms]_vars

\* The Upload page.
NextUpload ==
    \/ \E d \in Files \cup {NoFile} : handleDrop(d)
    \/ \E d \in Files \cup {NoFile} : handleFileSelect(d)
    \/ handleUpload
    \/ \E data \in UploadResponses : uploadSuccess(data)
    \/ uploadError
    \/ resetUpload

SpecUpload == InitPage /\ [][NextUpload]_vars

\* A spreadsheet whose name and type both pass the validation.
statement ==
    [present |-> TRUE, type |-> "text/csv", name |-> <<"a", ".", "c", "s", "v">>]

\* The Upload page, from a chosen file to the saved transactions.
NextPreview ==
    \/ handleFileSelect(statement)
    \/ handleUpload
    \/ \E data \in UploadResponses : uploadSuccess(data)
    \/ uploadError
    \/ \E i \in 1..Len(previewTransactions), c \in categories :
          handleCategoryChange(i, String(c.id))
    \/ \E i \in 1..Len(previewTransactions) : removeTransaction(i)
    \/ handleSaveAll
    \/ bulkApplies
    \/ bulkCreateSuccess
    \/ bulkCreateError
    \/ resetUpload

SpecPreview == InitPage /\ [][NextPreview]_vars

\* One upload request with its progress events.
NextProgress ==
    \/ handleFileSelect(statement)
    \/ handleUpload
    \/ \E e \in ProgressEvents : onUploadProgress(e)
    \/ \E data \in UploadResponses : uploadSuccess(data)
    \/ uploadError
    \/ resetUpload

SpecProgress == InitPage /\ [][NextProgress]_vars

\* The Budgets and Analytics pages render what their queries returned.
NextFigures ==
    \/ \E budget \in BudgetResponses : showBudget(budget)
    \/ \E summary \in SummaryResponses : showSavingsRate(summary)

SpecFigures == InitPage /\ [][NextFigures]_vars

\* Requests fail and the pages show what went wrong.
NextMessages ==
    \/ \E err \in FailedRequests : loginFailed(err)
    \/ \E errorData \in RegisterPayloads : registerFailed(errorData)
    \/ \E title \in FailureTitles, err \in FailedRequests : mutationFailed(title, err)
    \/ \E queryKey \in DataQueries, err \in FailedRequests : queryFailed(queryKey, err)

SpecMessages == InitPage /\ [][NextMessages]_vars

----------------------------------------------------------------------------
(* Claims about the response interceptor *)

NoTokens == [access |-> Null, refresh |-> Null]

\* C1: for every request the interceptor sends at most one refresh request
\* and replays the request at most once; a 401 answer to the replay is
\* rejected to the caller with no further refresh or replay.
C1_AtMostOneRefreshAndReplay ==
    /\ \A op \in Ops : reqs[op].nRefresh <= 1 /\ reqs[op].nReplay <= 1
    /\ (ev.via = "response" /\ ev.retried /\ ev.status = 401)
          => (ev.step = "settle" /\ ev.out = "rejected"
              /\ reqs[ev.op].phase = "idle")

\* A replayed request was answered 401 and its operation got the rejection.
C1_Witness ==
    /\ ev.via = "response" /\ ev.retried /\ ev.status = 401
    /\ ev.out = "rejected"

\* C2: a first 401 with a refresh token stored sends the refresh request;
\* when that succeeds the returned access token is stored, the request is
\* replayed once with that token as its bearer, and the operation is resumed
\* with whatever the replay gives (resolved on 200, rejected otherwise).
C2_RefreshStoresAndReplays ==
    /\ (ev.via = "response" /\ ev.status = 401 /\ ~ev.retried /\ ev.hadRefresh)
          => (/\ ev.step = "refresh"
              /\ reqs[ev.op].phase = "refreshing"
              /\ reqs[ev.op].nRefresh = 1 /\ reqs[ev.op].nReplay = 0
              /\ ev.out = "none")
    /\ (ev.via = "refresh" /\ ev.status = 200)
          => (/\ ev.step = "replay"
              /\ ev.tok \in Tokens
              /\ storage.access = ev.tok
              /\ reqs[ev.op].phase = "flight"
              /\ reqs[ev.op].url = ev.url
              /\ reqs[ev.op].hdr = ev.tok
              /\ reqs[ev.op].nReplay = 1
              /\ ev.out = "none")
    /\ (ev.via = "response" /\ ev.retried)
          => (/\ ev.step \in {"settle", "next"}
              /\ ev.out = IF ev.status = 200 THEN "resolved" ELSE "rejected")

\* The operation was resumed with the response of its replayed request.
C2_Witness ==
    /\ ev.via = "response" /\ ev.retried /\ ev.status = 200
    /\ ev.out = "resolved"

\* C3: a first 401 with no refresh token stored, or a failed refresh
\* request, removes both tokens, navigates to /login and rejects the
\* operation's request, which is not replayed (no request of the operation
\* is in flight afterwards).
C3_FailedRefreshClearsAndRedirects ==
    (\/ (ev.via = "response" /\ ev.status = 401 /\ ~ev.retried /\ ~ev.hadRefresh)
     \/ (ev.via = "refresh" /\ ev.status # 200))
      => (/\ tokens(storage) = NoTokens
          /\ nav = "/login"
          /\ ev.step = "settle"
          /\ ev.out = "rejected"
          /\ reqs[ev.op].phase = "idle")

\* A page request was rejected by a failed refresh while an access token
\* was stored: the tokens are gone and the navigation has started.
C3_Witness ==
    /\ ev.op = "data" /\ ev.via = "refresh" /\ ev.status # 200
    /\ ev.out = "rejected" /\ nav = "/login" /\ tokens(storage) = NoTokens

\* C4: every step that removes the stored tokens leaves user = null.
C4_ClearingTokensClearsUser ==
    [][(tokens(storage) # NoTokens /\ tokens(storage') = NoTokens) => user' = Null]_vars

----------------------------------------------------------------------------
(* Claims about the auth context *)

\* C5: no step of a login that does not succeed changes user, and a login
\* whose token request or profile request is rejected returns, without
\* throwing, success = false with a non-empty error string.
C5_FailedLoginKeepsUser ==
    /\ (ev.op = "login" /\ ev.success # "true") => ev.userKept
    /\ (ev.op = "login" /\ ev.out = "rejected")
          => (/\ ev.step = "settle"
              /\ ev.success = "false"
              /\ ev.error # "" /\ ev.error # Undefined
              /\ ~ev.threw
              /\ reqs["login"].phase = "idle")

\* A signed-in user's login failed at the profile request and the user is
\* still set.
C5_Witness ==
    /\ ev.op = "login" /\ ev.url = "me" /\ ev.success = "false"
    /\ user # Null

\* C6: logout returns with both tokens removed and user = null whatever its
\* request gave (a response, an error, or a rejection by the interceptor),
\* and never throws.
C6_LogoutAlwaysClears ==
    /\ (ev.op = "logout" /\ ev.out # "none") => ev.step = "settle"
    /\ (ev.op = "logout" /\ ev.step = "settle")
          => (/\ tokens(storage) = NoTokens
              /\ user = Null
              /\ ~ev.threw
              /\ reqs["logout"].phase = "idle")

\* logout returned after the interceptor's refresh request had failed.
C6_Witness ==
    /\ ev.op = "logout" /\ ev.step = "settle" /\ ev.via = "refresh"
    /\ ev.out = "rejected"

\* C7: refreshUser with an access token stored sends the profile request;
\* when that is rejected, for whatever reason, refreshUser returns without
\* throwing, with user = null and both tokens removed.
C7_RefreshUserFailureClears ==
    /\ (ev.op = "refreshUser" /\ ev.via = "call" /\ storage.access # Null)
          => (/\ ev.step = "call"
              /\ reqs["refreshUser"].phase = "flight"
              /\ reqs["refreshUser"].url = "me"
              /\ reqs["refreshUser"].hdr = storage.access)
    /\ (ev.op = "refreshUser" /\ ev.out = "rejected")
          => (/\ ev.step = "settle"
              /\ user = Null
              /\ tokens(storage) = NoTokens
              /\ isLoading = FALSE
              /\ ~ev.threw)

\* refreshUser's profile request failed with no response at all.
C7_Witness ==
    /\ ev.op = "refreshUser" /\ ev.out = "rejected" /\ ev.status = 0
    /\ user = Null /\ tokens(storage) = NoTokens

\* C8, as stated: when login returns success, the stored access token is
\* the one its login response returned (and the refresh token the returned
\* one when present), user is the profile returned and the tokens were
\* stored before the profile request was sent.
C8_LoginSuccessHoldsReturnedTokens ==
    [][/\ (ev'.op = "login" /\ ev'.step = "next")
             => (storage'.access = ev'.tok /\ reqs'["login"].hdr = ev'.tok)
       /\ (ev'.op = "login" /\ ev'.success = "true")
             => (/\ storage'.access = reqs["login"].access
                 /\ (reqs["login"].refresh # Undefined
                        => storage'.refresh = reqs["login"].refresh)
                 /\ user' = ev'.profile
                 /\ user' \in Profiles)
      ]_vars

\* C8, amended: the login response's tokens are stored (the refresh token
\* only when present) before the profile request is sent, which carries the
\* new access token; when the profile request resolves, login returns
\* success with user set to the returned profile.  With no other operation
\* running, the stored access token is then the login response's if the
\* profile request was answered at once, and the token refresh's if it was
\* first answered 401 and replayed.
C8_LoginSuccess ==
    [][/\ (ev'.op = "login" /\ ev'.step = "next")
             => (/\ ev'.status = 200 /\ ev'.tok \in Tokens
                 /\ storage'.access = ev'.tok
                 /\ reqs'["login"].access = ev'.tok
                 /\ storage'.refresh = IF reqs'["login"].refresh # Undefined
                                       THEN reqs'["login"].refresh
                                       ELSE storage.refresh
                 /\ reqs'["login"].phase = "flight"
                 /\ reqs'["login"].url = "me"
                 /\ reqs'["login"].hdr = ev'.tok
                 /\ user' = user)
       /\ (ev'.op = "login" /\ ev'.url = "me" /\ ev'.out = "resolved")
             => (/\ ev'.step = "settle"
                 /\ ev'.success = "true"
                 /\ user' = ev'.profile
                 /\ user' \in Profiles
                 /\ storage'.access = IF reqs["login"].nReplay = 0
                                      THEN reqs["login"].access
                                      ELSE reqs["login"].hdr
                 /\ reqs["login"].refresh # Undefined
                        => storage'.refresh = reqs["login"].refresh)
       /\ (ev'.op = "login" /\ ev'.success = "true")
             => (ev'.url = "me" /\ ev'.out = "resolved")
      ]_vars

\* login returned success after its profile request had been replayed.
C8_Witness ==
    /\ ev.op = "login" /\ ev.success = "true" /\ ev.retried
    /\ user = ev.profile /\ user \in Profiles /\ storage.access \in Tokens

----------------------------------------------------------------------------

C10_Passes(f) ==
    \/ f.type = "text/csv"
    \/ f.type = "application/vnd.ms-excel"
    \/ f.type = "application/vnd.openxmlformats-officedocument.spreadsheetml.sheet"
    \/ f.name = <<"a", ".", "c", "s", "v">>
    \/ f.name = <<"A", ".", "C", "S", "V">>
    \/ f.name = <<"b", ".", "x", "l", "s">>
    \/ f.name = <<"b", ".", "X", "l", "s", "x">>

\* C10: a dropped or chosen file is rejected exactly when it fails both the
\* MIME-type check and the extension check; a rejected file is not selected
\* and the earlier selection stays; the selected file and the file being
\* uploaded have always passed the validation.
C10_OnlyValidFiles ==
    /\ (uev.kind \in {"drop", "select"} /\ uev.offered.present) =>
          /\ (uev.toast = "Invalid file type") <=> ~C10_Passes(uev.offered)
          /\ C10_Passes(uev.offered) => file = uev.offered
          /\ ~C10_Passes(uev.offered) => (uev.kept /\ file # uev.offered)
    /\ file.present => C10_Passes(file)
    /\ upload.present => C10_Passes(upload)

\* A file failing both checks was dropped while another was selected and
\* being uploaded.
C10_Witness ==
    /\ uev.kind = "drop"
    /\ uev.offered.present
    /\ uev.toast = "Invalid file type"
    /\ file.present
    /\ upload.present

----------------------------------------------------------------------------

\* The number an amount stands for, told by hand.
C11_NumericValue(amount) ==
    CASE amount = AmountNumber(700) -> Number(700)
      [] amount = AmountString(<<"1", "2", ".", "5", "0">>) -> Number(1250)
      [] amount = AmountString(<<"9", "0", "0">>) -> Number(90000)

\* The edited preview set: the returned rows that were not removed, in
\* their order, each with the category chosen for it, if any.
C11_EditedSet ==
    [k \in 1..Len(plog.origin) |->
        LET place == plog.origin[k]
            row == plog.returned[place]
        IN  [amount |-> C11_NumericValue(row.amount),
             category |-> IF \E pr \in plog.changed : pr[1] = place
                          THEN (CHOOSE pr \in plog.changed : pr[1] = place)[2]
                          ELSE row.category,
             description |-> row.description,
             date |-> row.date]]

\* C11: the list handleSaveAll hands to bulk-create is the edited preview
\* set (the rows the upload returned, in their order, without the removed
\* rows, with each chosen category on the row it was chosen for and nothing
\* else changed), and no other handler of the preview sends anything.
C11_BulkCreateSendsEditedSet ==
    /\ plog.kind = "saveAll" =>
          /\ bulk.phase = "sent"
          /\ bulk.transactions = C11_EditedSet
    /\ plog.kind \in {"uploadSuccess", "categoryChange", "remove", "reset"} =>
          plog.bulkKept
    /\ Len(previewTransactions) = Len(plog.origin)
    /\ \A k \in 1..Len(plog.origin) :
          /\ k > 1 => plog.origin[k - 1] < plog.origin[k]
          /\ ExpenseInput(previewTransactions[k]) = C11_EditedSet[k]

\* Three rows came back, the middle one was removed, a category was chosen
\* for the last one, and the two rows left were saved.
C11_Witness ==
    /\ plog.kind = "saveAll"
    /\ Len(plog.returned) = 3
    /\ plog.origin = <<1, 3>>
    /\ plog.changed = {<<3, 1>>}
    /\ bulk.transactions[2].category = 1
    /\ bulk.transactions[1].category = NoCategory

----------------------------------------------------------------------------

\* The numbers a budget of the response carries.
C12_Supplied(budget) ==
    {budget.amount}
    \cup (IF budget.spent.present THEN {budget.spent.value} ELSE {})
    \cup (IF budget.remaining.present THEN {budget.remaining.value} ELSE {})

\* C12: every figure a page shows is a number of the response it was given
\* (0 where the response has none): the spent amount, the remaining amount
\* and the progress percentage of a budget, and the savings rate.
C12_ShowsOnlySuppliedFigures ==
    /\ view.page = "Budgets" =>
          /\ view.shown.spent \in C12_Supplied(view.given) \cup {0}
          /\ view.shown.remaining \in C12_Supplied(view.given) \cup {0}
          /\ view.shown.percentage \in C12_Supplied(view.given) \cup {0}
    /\ view.page = "Analytics" =>
          view.shown.savingsRate
              \in {view.given.total_income, view.given.total_expenses, 0}

----------------------------------------------------------------------------

\* The strings of a sequence that are present and not empty.
NonEmptyOf(seq) == SelectSeq(seq, LAMBDA x : x # Undefined /\ x # "")

\* The first entry of non_field_errors, if the payload has one.
C13_FirstEntry(data) ==
    IF data.non_field_errors.present /\ data.non_field_errors.items # <<>>
    THEN Head(data.non_field_errors.items)
    ELSE Undefined

\* C13: a failed login returns the first non-empty value among detail,
\* message and the first non_field_errors entry, and the default message
\* when there is none.
C13_LoginErrorPriority ==
    view.page = "Login" =>
        LET found == NonEmptyOf(<<view.given.data.detail,
                                  view.given.data.message,
                                  C13_FirstEntry(view.given.data)>>)
        IN  /\ ~view.shown.success
            /\ view.shown.error =
                  IF found = <<>> THEN "Invalid username or password"
                  ELSE Head(found)

\* The payload carries an empty detail, a message and a non-field error:
\* the message is returned.
C13_Witness ==
    /\ view.page = "Login"
    /\ view.given.data.detail = ""
    /\ view.given.data.message = "message text"
    /\ view.given.data.non_field_errors.items = <<"nfe text">>
    /\ view.shown.error = "message text"

\* The message a field of the payload carries: the string, or the first
\* element of the array.
C14_MessageOf(field) ==
    CASE field.kind = "string" -> field.text
      [] field.kind = "array" /\ field.items # <<>> -> Head(field.items)
      [] OTHER -> Undefined

\* C14: a failed registration returns the first message available among
\* username, email, password, password2, detail and message, 'Registration
\* failed' when there is none, and always a non-empty string.
C14_RegisterErrorPriority ==
    view.page = "Register" =>
        LET found == NonEmptyOf(<<C14_MessageOf(view.given.username),
                                  C14_MessageOf(view.given.email),
                                  C14_MessageOf(view.given.password),
                                  C14_MessageOf(view.given.password2),
                                  view.given.detail,
                                  view.given.message>>)
        IN  /\ view.shown.error =
                  IF found = <<>> THEN "Registration failed" ELSE Head(found)
            /\ view.shown.error # Undefined
            /\ view.shown.error # ""

\* C15: the failure toast of every mutation shows the first value present
\* among detail, message and the first non_field_errors entry of the
\* payload.
C15_ToastShowsFirstPayloadMessage ==
    view.page = "Toast" =>
        LET found == NonEmptyOf(<<view.given.data.detail,
                                  view.given.data.message,
                                  C13_FirstEntry(view.given.data)>>)
        IN  found # <<>> => view.shown.description = Head(found)

\* C16: every failed request, of a mutation or of a data query, ends in a
\* notification shown to the user, and the page is no longer loading.
C16_EveryFailureNotified ==
    /\ view.page = "Toast" => Truthy(view.shown.title)
    /\ view.page = "Query" => (Truthy(view.shown.title) /\ ~view.shown.isLoading)

----------------------------------------------------------------------------

\* C17: a response error other than a 401 (another status, or no response)
\* is rejected to the caller as it is: the interceptor sends no refresh
\* request, does not replay the request, leaves the token store alone and
\* does not redirect.
C17_OtherErrorsPassThrough ==
    (ev.via = "response" /\ ev.status # 200 /\ ev.status # 401) =>
        /\ ev.step = "settle"
        /\ ev.out = "rejected"
        /\ ev.untouched
        /\ reqs[ev.op].phase \notin {"refreshing"}

\* A page request was answered 500 while a refresh token was stored: it was
\* rejected, the tokens are still there and no navigation was started.
C17_Witness ==
    /\ ev.via = "response"
    /\ ev.op = "data"
    /\ ev.status = 500
    /\ ev.out = "rejected"
    /\ getRefreshToken(storage) # Null
    /\ nav = "none"

\* C18: a request the shared client has just sent, a replay included,
\* carries the access token stored at that moment, and no Authorization
\* header when none is stored.
C18_BearerIsStoredToken ==
    (ev.step \in {"call", "replay", "next"} /\ reqs[ev.op].phase = "flight") =>
        reqs[ev.op].hdr = getAccessToken(storage)

\* A request was replayed after a refresh gave a token other than the one
\* the request was first sent with.
C18_Witness ==
    /\ ev.step = "replay"
    /\ reqs[ev.op].phase = "flight"
    /\ reqs[ev.op].hdr = ev.tok
    /\ getAccessToken(storage) = ev.tok
    /\ ev.tok # Null

\* The data held by every cache entry.
C19_Data ==
    [expenses |-> [f \in Filters |-> cache[f].data],
     others |-> [r \in Resources |-> queries[r].data]]

\* The entries other than those of key r are as they were.
C19_OthersKept(r) ==
    \A o \in Resources \ {r} : queries'[o] = queries[o]

\* C19: a step of a mutation (it is sent, applied, succeeds or fails) never
\* changes the data held by any cache entry of 'expenses', 'analytics',
\* 'budgets' or 'category-rules'; unless it is the success handler it
\* leaves every entry as it was, data and freshness; and the success handler
\* changes only the entries under the keys it invalidates, which are marked
\* invalidated.
C19_WritesOnlyInvalidate ==
    [][/\ (mut' # mut \/ rmut' # rmut) => C19_Data' = C19_Data
       /\ (mut' # mut /\ cev'.kind # "mutationSuccess") =>
              (cache' = cache /\ queries' = queries)
       /\ (rmut' # rmut /\ qev'.kind # "mutationSuccess") =>
              (cache' = cache /\ queries' = queries)
       /\ (mut' # mut /\ cev'.kind = "mutationSuccess") =>
              /\ \A f \in Filters : cache'[f].invalidated
              /\ queries'["analytics"].invalidated
              /\ C19_OthersKept("analytics")
       /\ (rmut' # rmut /\ qev'.kind = "mutationSuccess") =>
              /\ cache' = cache
              /\ queries'[qev'.resource].invalidated
              /\ C19_OthersKept(qev'.resource)]_vars

C19_Witness == qev.kind = "mutationError" /\ qev.resource = "budgets" /\ stored["budgets"] = 1 /\ queries["budgets"] = [data |-> 0, invalidated |-> FALSE, fetch |-> "idle"] /\ queries["analytics"].invalidated

C20_Keys == {"access", "refresh", "theme"}

\* C20: the store holds the two token keys and 'theme' and no other key;
\* no step changes both a token key and 'theme'; a step that changes 'theme'
\* stores 'dark' or 'light'; and setTokens and clearTokens, applied to the
\* store with any tokens, leave 'theme' as it is.
C20_StorageFrame ==
    [][/\ DOMAIN storage' = C20_Keys
       /\ tokens(storage') # tokens(storage) => storage'.theme = storage.theme
       /\ storage'.theme # storage.theme =>
              /\ tokens(storage') = tokens(storage)
              /\ storage'.theme = IF isDarkMode' THEN "dark" ELSE "light"
       /\ clearTokens(storage').theme = storage'.theme
       /\ \A a \in Tokens, r \in Tokens \cup {Undefined} :
              setTokens(storage', a, r).theme = storage'.theme]_vars

C20_Witness == storage.theme = "dark" /\ tokens(storage) = NoTokens /\ ev.op = "logout" /\ ev.step = "settle" /\ isDarkMode

\* C21: a call of refreshUser made while no access token is stored sends no
\* request (no operation's request changes), sets user to null and
\* isLoading to false, and leaves the token store as it was.
C21_NoTokenNoRequest ==
    [][(ev'.op = "refreshUser" /\ ev'.via = "call"
            /\ getAccessToken(storage) = Null) =>
          /\ reqs' = reqs
          /\ reqs'["refreshUser"].phase = "idle"
          /\ user' = Null
          /\ isLoading' = FALSE
          /\ storage' = storage
          /\ ev'.step = "settle"]_vars

C21_Witness == ev.op = "refreshUser" /\ ev.via = "call" /\ ev.step = "settle" /\ getAccessToken(storage) = Null /\ user = Null /\ ~isLoading /\ reqs["refreshUser"].phase = "idle" /\ mounted

\* register resumes with the fulfilled response of its registration request.
C22_Resumes ==
    /\ reg.cfg.url = "register"
    /\ reg'.cfg # reg.cfg
    /\ ev'.op = "register"
    /\ ev'.out = "resolved"

\* C22 (as the code has it): when register resumes with a fulfilled response
\* that carries no access token it returns success=true and, in that step,
\* leaves the token store and user as they are and sends no request; when
\* the response carries an access token it stores it and sends the profile
\* request; and register sends the profile request in no other step.
C22_RegisterStoresOnlyWithAccess ==
    [][/\ (C22_Resumes /\ ~Truthy(ev'.tok)) =>
              /\ ev'.success = "true"
              /\ storage' = storage
              /\ user' = user
              /\ reg'.cfg.phase = "idle"
              /\ reqs' = reqs
       /\ (C22_Resumes /\ Truthy(ev'.tok)) =>
              /\ getAccessToken(storage') = ev'.tok
              /\ reg'.cfg.phase = "flight"
              /\ reg'.cfg.url = "me"
              /\ reg'.cfg.hdr = ev'.tok
       /\ (reg'.cfg.url = "me" /\ reg.cfg.url # "me") =>
              (C22_Resumes /\ Truthy(ev'.tok))]_vars

C22_Witness == ev.op = "register" /\ ev.url = "register" /\ ev.via = "response" /\ ev.success = "true" /\ ev.tok = Undefined /\ reg.cfg.phase = "idle" /\ user = Null /\ storage = reg.before /\ getAccessToken(storage) = Null

\* C22 (as stated): after register returned success for a response without
\* an access token, the token store and user are what they were when
\* register was called.
C22_RegisterWithoutTokensKeepsStore ==
    (ev.op = "register" /\ ev.url = "register" /\ ev.success = "true"
        /\ ~Truthy(ev.tok))
      => (storage = reg.before /\ user = reg.userBefore)

\* C23: the value passed to the progress callback for an event of the
\* pending upload is the integer nearest to 100 * loaded / total (halves
\* up); it lies in 0..100 when 0 <= loaded <= total; and nothing is passed
\* for an event whose total is unknown or zero.
C23_ProgressIsRoundedPercentage ==
    view.page = "Upload" =>
        LET loaded == view.given.loaded
            total == view.given.total
            p == view.shown.progress
        IN /\ (~total.present \/ total.value = 0) => ~view.shown.reported
           /\ (total.present /\ total.value # 0) =>
                  /\ view.shown.reported
                  /\ p \in Int
                  /\ 2 * p * total.value - total.value <= 200 * loaded
                  /\ 200 * loaded < 2 * p * total.value + total.value
                  /\ (0 <= loaded /\ loaded <= total.value) => p \in 0..100

C23_Witness == view.page = "Upload" /\ view.given = [loaded |-> 1, total |-> Present(8)] /\ view.shown = [reported |-> TRUE, progress |-> 13] /\ upload.present

\* C24: in every reachable state a non-null user (isAuthenticated) implies
\* that an access token is stored.
C24_UserImpliesToken == user # Null => getAccessToken(storage) # Null

\* C25: in the state logout has just left (it has completed and cleared the
\* token store), a step that puts a token into the store is a step of login
\* or register storing the tokens it was returned.
C25_NoWriteBackAfterLogout ==
    [][(ev.op = "logout" /\ ev.step = "settle"
            /\ tokens(storage) = NoTokens /\ tokens(storage') # NoTokens)
          => (ev'.op \in {"login", "register"} /\ ev'.step = "next")]_vars

\* C26: at most one token-refresh request is in flight at any time.
C26_SingleRefreshInFlight ==
    Cardinality({o \in Ops : reqs[o].phase = "refreshing"}) <= 1

\* C27: when login returns after its profile request was rejected, it
\* returns success = false and the access token its token request had
\* returned is not left stored while user is null.
C27_FailedProfileDropsTokens ==
    [][(reqs["login"].url = "me" /\ reqs'["login"].phase = "idle"
            /\ ev'.op = "login" /\ ev'.out = "rejected")
          => /\ ev'.success = "false"
             /\ user' = Null => getAccessToken(storage') # reqs["login"].access]_vars

\* C28: while the dialog is open after a Create button opened it, the
\* editing target is null, and a form submitted from a dialog that a Create
\* button opened issues a create request, never an update.
C28_CreateDialogCreates ==
    /\ (isDialogOpen /\ flog.openedFor = "create") => editing = Null
    /\ (flog.openedFor = "create" /\ flog.request # "none"
            /\ rmut.phase = "sent" /\ rmut.kind # "delete")
          => (flog.request = "create" /\ rmut.kind = "create")

\* C29: a bulk-create request in flight carries at least one transaction, and
\* while the preview is shown with zero transactions (an upload that returned
\* an empty list, or every row removed) handleSaveAll cannot be taken; a step
\* that sends the request sends one entry per row of a non-empty preview.
C29_NeverSavesEmptyList ==
    /\ bulk.phase # "idle" => Len(bulk.transactions) > 0
    /\ (showPreview /\ Len(previewTransactions) = 0) => ~ENABLED handleSaveAll
    /\ plog.kind = "saveAll" =>
          (Len(previewTransactions) > 0
             /\ Len(bulk.transactions) = Len(previewTransactions))

\* The preview is on screen with zero rows after its last row was removed and
\* no bulk-create request is out.
C29_Witness ==
    /\ showPreview
    /\ Len(previewTransactions) = 0
    /\ plog.kind = "remove"
    /\ Len(plog.returned) > 0
    /\ bulk = NoBulk

\* A step that turns isLoading from false to true.
C30_TurnsTrue == ~isLoading /\ isLoading'

\* The document is replaced: a new provider is constructed.
C30_NewProvider == nav # "none" /\ nav' = "none" /\ ~mounted' /\ ev' = NoEvent

\* C30: once the provider is mounted isLoading eventually becomes false,
\* given that the profile request settles; and within one provider isLoading
\* never goes from false to true: a login, register, logout or refreshUser
\* call, and each step of their handlers, leaves it false.  Only a new
\* document, whose provider starts with isLoading true, shows true again.
C30_LoadingEnds ==
    /\ [](mounted => <>(~isLoading))
    /\ [][C30_TurnsTrue => C30_NewProvider]_vars
    /\ [][(~isLoading /\ ev'.op \in {"login", "register", "logout", "refreshUser"})
            => ~isLoading']_vars

\* A logout is called by a signed-in user: the profile request or a login
\* settled before, and isLoading is false.
C30_Witness ==
    /\ mounted
    /\ ~isLoading
    /\ user # Null
    /\ ev.op = "logout"
    /\ ev.via = "call"
    /\ reqs["logout"].phase = "flight"

============================================================================
